---- MODULE Spec2Model ----
(***************************************************************************)
(* A model of the CNDI template interpreter, src/src/use-template/mod.ts.   *)
(*                                                                         *)
(* Text is a sequence of tokens.  A token is a TLA+ string standing for a  *)
(* run of characters of the program's strings: "{{" and "}}" are the brace *)
(* delimiters, "gpr(" is `$cndi.get_prompt_response(`, "grs(" is            *)
(* `$cndi.get_random_string(`, "gb(" is `$cndi.get_block(`, "gs(" is        *)
(* `$cndi.get_string(`, "cm(" is `$cndi.comment(`, "ga(" is                 *)
(* `$cndi.get_arg(`, ")" "'" ":" " " "\n" are themselves, ">" is one level  *)
(* of YAML indentation, and the remaining tokens are letters and digits.   *)
(* Every string operation of the program (indexOf, slice, replaceAll,      *)
(* startsWith, split) is computed on these sequences.                      *)
(***************************************************************************)
EXTENDS Integers, Sequences, FiniteSets, TLC

----------------------------------------------------------------------------
(* Values: CNDITemplatePromptResponsePrimitive and parsed YAML nodes.  One  *)
(* record shape for all of them: t is the JavaScript type, s the text of a  *)
(* string, n the number (or 1/0 for a boolean), kv the entries of a mapping *)
(* in insertion order.                                                      *)

Str(s) == [t |-> "str", s |-> s, n |-> 0, kv |-> <<>>]

Num(n) == [t |-> "num", s |-> <<>>, n |-> n, kv |-> <<>>]

Bool(b) == [t |-> "bool", s |-> <<>>, n |-> IF b THEN 1 ELSE 0, kv |-> <<>>]

Null == [t |-> "null", s |-> <<>>, n |-> 0, kv |-> <<>>]

Undefined == [t |-> "undef", s |-> <<>>, n |-> 0, kv |-> <<>>]

MapOf(kv) == [t |-> "map", s |-> <<>>, n |-> 0, kv |-> kv]

Entry(k, v) == [k |-> k, v |-> v]

Digits == <<"0", "1", "2", "3", "4", "5", "6", "7", "8", "9">>

IsDigit(c) == \E i \in 1..10 : Digits[i] = c

DigitVal(c) == (CHOOSE i \in 1..10 : Digits[i] = c) - 1

RECURSIVE NumStr(_)
\* `${n}` for a non-negative integer n
NumStr(n) == IF n < 10 THEN <<Digits[n + 1]>>
             ELSE NumStr(n \div 10) \o <<Digits[(n % 10) + 1]>>

RECURSIVE ToStr(_)
\* `${val}`: the template-literal string form of a value; an array is its
\* elements joined by commas, null and undefined elements left empty
ToStr(v) ==
  CASE v.t = "str" -> v.s
    [] v.t = "num" -> NumStr(v.n)
    [] v.t = "bool" -> IF v.n = 1 THEN <<"true">> ELSE <<"false">>
    [] v.t = "null" -> <<"null">>
    [] v.t = "undef" -> <<"undefined">>
    [] v.t = "nan" -> <<"NaN">>
    [] v.t = "seq" ->
         IF v.kv = <<>> THEN <<>>
         ELSE LET first == IF v.kv[1].v.t \in {"null", "undef"} THEN <<>>
                           ELSE ToStr(v.kv[1].v)
              IN IF Len(v.kv) = 1 THEN first
                 ELSE first \o <<",">> \o ToStr([v EXCEPT !.kv = Tail(v.kv)])
    [] OTHER -> <<"[object Object]">>

\* JavaScript truthiness
Truthy(v) ==
  CASE v.t = "str" -> v.s # <<>>
    [] v.t = "num" -> v.n # 0
    [] v.t = "bool" -> v.n = 1
    [] v.t = "null" -> FALSE
    [] v.t = "undef" -> FALSE
    [] OTHER -> TRUE

----------------------------------------------------------------------------
(* String primitives, with JavaScript's 0-based positions.                  *)

\* s.startsWith(p, at)
MatchAt(s, p, at) ==
  /\ at >= 0
  /\ at + Len(p) <= Len(s)
  /\ \A i \in 1..Len(p) : s[at + i] = p[i]

StartsWith(s, p) == MatchAt(s, p, 0)

\* s.indexOf(p, from); a negative from counts as 0
IndexOf(s, p, from) ==
  LET f == IF from < 0 THEN 0 ELSE from
      hits == {i \in f..(Len(s) - Len(p)) : MatchAt(s, p, i)}
  IN IF hits = {} THEN -1
     ELSE CHOOSE i \in hits : \A j \in hits : i <= j

\* s.lastIndexOf(p)
LastIndexOf(s, p) ==
  LET hits == {i \in 0..(Len(s) - Len(p)) : MatchAt(s, p, i)}
  IN IF hits = {} THEN -1
     ELSE CHOOSE i \in hits : \A j \in hits : i >= j

Includes(s, p) == IndexOf(s, p, 0) > -1

\* s.slice(a, b), negative positions counted from the end
Slice(s, a, b) ==
  LET norm(x) == IF x < 0 THEN (IF Len(s) + x < 0 THEN 0 ELSE Len(s) + x)
                 ELSE (IF x > Len(s) THEN Len(s) ELSE x)
      lo == norm(a)
      hi == norm(b)
  IN IF lo >= hi THEN <<>> ELSE SubSeq(s, lo + 1, hi)

SliceFrom(s, a) == Slice(s, a, Len(s))

RECURSIVE ReplaceAll(_, _, _)
\* s.replaceAll(p, r): the matches are found left to right on the input and
\* do not overlap
ReplaceAll(s, p, r) ==
  LET i == IndexOf(s, p, 0)
  IN IF p = <<>> \/ i = -1 THEN s
     ELSE Slice(s, 0, i) \o r \o ReplaceAll(SliceFrom(s, i + Len(p)), p, r)

RECURSIVE CountOcc(_, _)
\* number of non-overlapping matches of p in s, as replaceAll counts them
CountOcc(s, p) ==
  LET i == IndexOf(s, p, 0)
  IN IF p = <<>> \/ i = -1 THEN 0
     ELSE 1 + CountOcc(SliceFrom(s, i + Len(p)), p)

RECURSIVE RemoveWs(_)
RemoveWs(s) == IF s = <<>> THEN <<>>
               ELSE IF Head(s) = " " THEN RemoveWs(Tail(s))
               ELSE <<Head(s)>> \o RemoveWs(Tail(s))

RECURSIVE removeWhitespaceBetweenBraces(_)
\* util/strings.ts: whitespace inside each `{{ ... }}` pair is removed, a pair
\* being a "{{" and the first "}}" after it
removeWhitespaceBetweenBraces(s) ==
  LET o == IndexOf(s, <<"{{">>, 0)
      c == IF o = -1 THEN -1 ELSE IndexOf(s, <<"}}">>, o + 1)
  IN IF o = -1 \/ c = -1 THEN s
     ELSE Slice(s, 0, o + 1) \o RemoveWs(Slice(s, o + 1, c)) \o <<"}}">>
          \o removeWhitespaceBetweenBraces(SliceFrom(s, c + 1))

----------------------------------------------------------------------------
(* The Response Store and the Named-Block Store: the module-level `$cndi`   *)
(* object.  A Map keeps insertion order, and set() of a present key keeps   *)
(* the key's position.                                                     *)

VARIABLES responses, blocks

storeVars == <<responses, blocks>>

MapHas(m, k) == \E i \in 1..Len(m) : m[i].k = k

MapGet(m, k) ==
  IF MapHas(m, k) THEN m[CHOOSE i \in 1..Len(m) : m[i].k = k].v ELSE Undefined

MapSet(m, k, v) ==
  IF MapHas(m, k)
  THEN [i \in 1..Len(m) |-> IF m[i].k = k THEN Entry(k, v) ELSE m[i]]
  ELSE Append(m, Entry(k, v))

MapKeys(m) == {m[i].k : i \in 1..Len(m)}

RECURSIVE SkipUndefined(_)
SkipUndefined(m) ==
  IF m = <<>> THEN <<>>
  ELSE IF Head(m).v = Undefined THEN SkipUndefined(Tail(m))
  ELSE <<Head(m)>> \o SkipUndefined(Tail(m))

\* every entry is copied, the undefined ones too
getResponsesAsRecordKeepingAll(store, skipUndefined) == store

\* $cndi.getResponsesAsRecord(skipUndefined)
getResponsesAsRecord(store, skipUndefined) ==
  IF skipUndefined THEN SkipUndefined(store) ELSE store

----------------------------------------------------------------------------
(* Macro Substitution Engine                                               *)

\* `{{$cndi.get_prompt_response(NAME)}}`
Macro(name) == <<"{{", "gpr(">> \o name \o <<")", "}}">>

QuotedMacro(name) == <<"'">> \o Macro(name) \o <<"'">>

\* s.replace(p, r): the first match only
ReplaceFirst(s, p, r) ==
  LET i == IndexOf(s, p, 0)
  IN IF i = -1 THEN s
     ELSE Slice(s, 0, i) \o r \o SliceFrom(s, i + Len(p))

\* LiteralizeOne with replace() where the code has replaceAll()
LiteralizeOneFirstMatchOnly(output, e) ==
  IF e.v.t = "str"
  THEN ReplaceFirst(output, Macro(e.k), ToStr(e.v))
  ELSE ReplaceFirst(ReplaceFirst(output, QuotedMacro(e.k), ToStr(e.v)),
                    Macro(e.k), ToStr(e.v))

\* one turn of the for-in loop of literalizeGetPromptResponseCalls
LiteralizeOne(output, e) ==
  IF e.v.t = "str"
  THEN ReplaceAll(output, Macro(e.k), ToStr(e.v))
  ELSE ReplaceAll(ReplaceAll(output, QuotedMacro(e.k), ToStr(e.v)),
                  Macro(e.k), ToStr(e.v))

RECURSIVE LiteralizeLoop(_, _)
LiteralizeLoop(output, rs) ==
  IF rs = <<>> THEN output
  ELSE LiteralizeLoop(LiteralizeOne(output, Head(rs)), Tail(rs))

literalizeGetPromptResponseCallsWith(input, store) ==
  LiteralizeLoop(removeWhitespaceBetweenBraces(input),
                 getResponsesAsRecord(store, FALSE))

----------------------------------------------------------------------------
(* literalizeGetPromptResponseCalls applied to a text, and again to its own *)
(* output, with the Response Store held fixed.                              *)

VARIABLES litPc, litIn, litOut1, litOut2

litVars == <<litPc, litIn, litOut1, litOut2>>

MaxPieces == 2

NameA == <<"a">>

NameB == <<"b">>

LitPieces ==
  { <<"x">>, <<"'">>, <<" ">>, NameA, NameB, Macro(NameA), Macro(NameB),
    <<"{{", "gpr(">>, <<")", "}}">> }

RECURSIVE Concat(_)
Concat(ss) == IF ss = <<>> THEN <<>> ELSE Head(ss) \o Concat(Tail(ss))

\* the texts made of at most n pieces
TextsOf(pieces, n) ==
  {Concat(ps) : ps \in UNION {[1..k -> pieces] : k \in 0..n}}

LitValues ==
  { Str(<<"x">>), Str(<<>>), Str(NameB), Str(Macro(NameB)), Num(5),
    Bool(TRUE), Undefined }

\* the stores with at most two entries, in either insertion order
LitStores ==
  {<<>>}
  \cup {<<Entry(k, v)>> : k \in {NameA, NameB}, v \in LitValues}
  \cup {<<Entry(k[1], v), Entry(k[2], w)>> :
          k \in {<<NameA, NameB>>, <<NameB, NameA>>},
          v \in LitValues, w \in LitValues}

LitIdle ==
  /\ litPc = "idle"
  /\ litIn = <<>>
  /\ litOut1 = <<>>
  /\ litOut2 = <<>>

LitInit ==
  /\ litPc = "start"
  /\ litIn \in TextsOf(LitPieces, MaxPieces)
  /\ litOut1 = <<>>
  /\ litOut2 = <<>>

\* output = literalizeGetPromptResponseCalls(input)
LitFirst ==
  /\ litPc = "start"
  /\ litOut1' = literalizeGetPromptResponseCallsWith(litIn, responses)
  /\ litPc' = "once"
  /\ UNCHANGED <<litIn, litOut2>>

\* literalizeGetPromptResponseCalls(output)
LitSecond ==
  /\ litPc = "once"
  /\ litOut2' = literalizeGetPromptResponseCallsWith(litOut1, responses)
  /\ litPc' = "twice"
  /\ UNCHANGED <<litIn, litOut1>>

----------------------------------------------------------------------------
(* YAML.stringify and YAML.parse on block-style documents.  One line is     *)
(* written per mapping entry or sequence item: the indentation (one ">"     *)
(* per level), the key and ":" (or "-" for an item), then " " and the       *)
(* scalar, or nothing when the value is a non-empty collection written on   *)
(* the lines below.  A string is written plain when the parser reads it     *)
(* back as the same string, and between single quotes otherwise.            *)

SeqOf(kv) == [t |-> "seq", s |-> <<>>, n |-> 0, kv |-> kv]

RECURSIVE DigitsValue(_, _)
\* the number a run of decimal digits denotes
DigitsValue(ds, acc) ==
  IF ds = <<>> THEN acc
  ELSE DigitsValue(Tail(ds), acc * 10 + DigitVal(Head(ds)))

\* what YAML.parse throws on
ParseError == [t |-> "error", s |-> <<>>, n |-> 0, kv |-> <<>>]

IsCollection(v) == v.t \in {"map", "seq"}

Indent(d) == [i \in 1..d |-> ">"]

AllDigits(s) == s # <<>> /\ \A i \in 1..Len(s) : IsDigit(s[i])

RECURSIVE EscapeQuotes(_)
EscapeQuotes(s) ==
  IF s = <<>> THEN <<>>
  ELSE (IF Head(s) = "'" THEN <<"'", "'">> ELSE <<Head(s)>>)
       \o EscapeQuotes(Tail(s))

RECURSIVE UnescapeQuotes(_)
UnescapeQuotes(s) ==
  IF s = <<>> THEN <<>>
  ELSE IF StartsWith(s, <<"'", "'">>)
  THEN <<"'">> \o UnescapeQuotes(SliceFrom(s, 2))
  ELSE <<Head(s)>> \o UnescapeQuotes(Tail(s))

RECURSIVE QuoteEnd(_, _)
\* position of the quote closing a single-quoted scalar whose inside starts
\* at position i of s, or -1
QuoteEnd(s, i) ==
  IF i >= Len(s) THEN -1
  ELSE IF s[i + 1] # "'" THEN QuoteEnd(s, i + 1)
  ELSE IF i + 1 < Len(s) /\ s[i + 2] = "'" THEN QuoteEnd(s, i + 2)
  ELSE i

IsPlainScalar(s) ==
  /\ s # <<>>
  /\ \A i \in 1..Len(s) : s[i] \notin {"{{", "}}", ":", "\n", "{}", "[]",
                                       "https://", "file://"}
  /\ Head(s) \notin {"'", " ", ">", "-"}
  /\ s[Len(s)] # " "
  /\ ~AllDigits(s)
  /\ s \notin {<<"true">>, <<"false">>, <<"null">>}

QuoteText(s) ==
  IF IsPlainScalar(s) THEN s ELSE <<"'">> \o EscapeQuotes(s) \o <<"'">>

ScalarText(v) ==
  CASE v.t = "str" -> QuoteText(v.s)
    [] v.t = "num" -> NumStr(v.n)
    [] v.t = "bool" -> ToStr(v)
    [] OTHER -> <<"null">>

RECURSIVE NodeText(_, _, _)
\* the lines of the entries i, i+1, ... of the non-empty collection v
NodeText(v, d, i) ==
  IF i > Len(v.kv) THEN <<>>
  ELSE LET x == v.kv[i].v
           lead == Indent(d) \o (IF v.t = "seq" THEN <<"-">>
                                 ELSE QuoteText(v.kv[i].k) \o <<":">>)
           value == IF IsCollection(x) /\ x.kv # <<>>
                    THEN <<"\n">> \o NodeText(x, d + 1, 1)
                    ELSE IF x.t = "map" THEN <<" ", "{}", "\n">>
                    ELSE IF x.t = "seq" THEN <<" ", "[]", "\n">>
                    ELSE <<" ">> \o ScalarText(x) \o <<"\n">>
       IN lead \o value \o NodeText(v, d, i + 1)

\* YAML.stringify(v)
Stringify(v) ==
  IF IsCollection(v) /\ v.kv # <<>> THEN NodeText(v, 0, 1)
  ELSE IF v.t = "map" THEN <<"{}", "\n">>
  ELSE IF v.t = "seq" THEN <<"[]", "\n">>
  ELSE ScalarText(v) \o <<"\n">>

RECURSIVE SplitLines(_)
SplitLines(text) ==
  LET i == IndexOf(text, <<"\n">>, 0)
  IN IF i = -1 THEN (IF text = <<>> THEN <<>> ELSE <<text>>)
     ELSE <<Slice(text, 0, i)>> \o SplitLines(SliceFrom(text, i + 1))

RECURSIVE LineDepth(_)
LineDepth(l) ==
  IF l # <<>> /\ Head(l) = ">" THEN 1 + LineDepth(Tail(l)) ELSE 0

ParseScalarText(t) ==
  IF t = <<>> THEN Null
  ELSE IF Head(t) = "'"
  THEN (IF QuoteEnd(t, 1) = Len(t) - 1
        THEN Str(UnescapeQuotes(Slice(t, 1, Len(t) - 1)))
        ELSE ParseError)
  ELSE IF t = <<"null">> THEN Null
  ELSE IF t = <<"true">> THEN Bool(TRUE)
  ELSE IF t = <<"false">> THEN Bool(FALSE)
  ELSE IF t = <<"{}">> THEN MapOf(<<>>)
  ELSE IF t = <<"[]">> THEN SeqOf(<<>>)
  ELSE IF AllDigits(t) THEN Num(DigitsValue(t, 0))
  ELSE IF \E i \in 1..Len(t) : t[i] \in {":", "{}", "[]"} THEN ParseError
  ELSE Str(t)

\* the text after a key's ":" or an item's "-": nothing, or " " and a scalar
InlineValue(rest) ==
  IF rest = <<>> THEN [ok |-> TRUE, inline |-> FALSE, val |-> <<>>]
  ELSE IF Head(rest) = " "
  THEN [ok |-> TRUE, inline |-> TRUE, val |-> Tail(rest)]
  ELSE [ok |-> FALSE, inline |-> FALSE, val |-> <<>>]

\* one line without its indentation: kind "key", "item" or "bad"
ParseLine(body) ==
  LET bad == [kind |-> "bad", key |-> <<>>, inline |-> FALSE, val |-> <<>>]
      mk(kind, key, rest) ==
        IF InlineValue(rest).ok
        THEN [kind |-> kind, key |-> key,
              inline |-> InlineValue(rest).inline, val |-> InlineValue(rest).val]
        ELSE bad
  IN IF body = <<>> THEN bad
     ELSE IF Head(body) = "-" THEN mk("item", <<>>, Tail(body))
     ELSE IF Head(body) = "'"
     THEN LET q == QuoteEnd(body, 1)
          IN IF q = -1 \/ ~MatchAt(body, <<":">>, q + 1) THEN bad
             ELSE mk("key", UnescapeQuotes(Slice(body, 1, q)),
                     SliceFrom(body, q + 2))
     ELSE LET c == IndexOf(body, <<":">>, 0)
          IN IF c < 1 THEN bad
             ELSE mk("key", Slice(body, 0, c), SliceFrom(body, c + 1))

RECURSIVE DeeperRun(_, _, _)
\* how many of the lines from position i on are indented deeper than d
DeeperRun(lines, d, i) ==
  IF i <= Len(lines) /\ LineDepth(lines[i]) > d
  THEN 1 + DeeperRun(lines, d, i + 1) ELSE 0

RECURSIVE ParseBlock(_, _, _)
\* the collection written on `lines` at depth d; idx is the index of the
\* first item when it is a sequence
ParseBlock(lines, d, idx) ==
  LET first == ParseLine(SliceFrom(lines[1], d))
      n == DeeperRun(lines, d, 2)
      rest == SubSeq(lines, 2 + n, Len(lines))
      value == IF first.inline
               THEN (IF n > 0 THEN ParseError ELSE ParseScalarText(first.val))
               ELSE IF n = 0 THEN Null
               ELSE ParseBlock(SubSeq(lines, 2, 1 + n), d + 1, 0)
      below == ParseBlock(rest, d, idx + 1)
      others == IF rest = <<>> THEN <<>> ELSE below.kv
      key == IF first.kind = "item" THEN NumStr(idx) ELSE first.key
  IN IF \/ LineDepth(lines[1]) # d
        \/ first.kind = "bad"
        \/ value = ParseError
        \/ (rest # <<>>
            /\ below.t # (IF first.kind = "item" THEN "seq" ELSE "map"))
        \/ \E j \in 1..Len(others) : others[j].k = key
     THEN ParseError
     ELSE [t |-> IF first.kind = "item" THEN "seq" ELSE "map", s |-> <<>>,
           n |-> 0, kv |-> <<Entry(key, value)>> \o others]

\* YAML.parse(text)
Parse(text) ==
  LET lines == SelectSeq(SplitLines(text),
                         LAMBDA l : ~StartsWith(SliceFrom(l, LineDepth(l)),
                                                <<"#">>))
  IN IF lines = <<>> THEN Null
     ELSE IF Len(lines) = 1 /\ ParseLine(lines[1]).kind = "bad"
     THEN ParseScalarText(lines[1])
     ELSE ParseBlock(lines, 0, 0)

----------------------------------------------------------------------------
(* getRandomString and literalizeGetRandomStringCalls                       *)

ALPHANUMERIC_CHARSET ==
  << "A", "B", "C", "D", "E", "F", "G", "H", "I", "J", "K", "L", "M",
     "N", "O", "P", "Q", "R", "S", "T", "U", "V", "W", "X", "Y", "Z",
     "a", "b", "c", "d", "e", "f", "g", "h", "i", "j", "k", "l", "m",
     "n", "o", "p", "q", "r", "s", "t", "u", "v", "w", "x", "y", "z",
     "0", "1", "2", "3", "4", "5", "6", "7", "8", "9" >>

DefaultRandomLength == 32

ByteRange == 256

\* Array.from(array, (byte) => charset[byte % charset.length]).join("")
getRandomString(bytes) ==
  [i \in 1..Len(bytes) |->
     ALPHANUMERIC_CHARSET[(bytes[i] % Len(ALPHANUMERIC_CHARSET)) + 1]]

\* crypto.getRandomValues(new Uint8Array(length)): the byte arrays the model
\* draws from, one per seed
RandomBytes(length, seed) ==
  [i \in 1..length |-> (seed[1] + (i - 1) * seed[2]) % ByteRange]

Seeds == {<<0, 1>>, <<61, 0>>, <<255, 201>>}

RECURSIVE DigitRun(_)
\* the digits a text starts with: the regular expression's (\d*)
DigitRun(s) ==
  IF s # <<>> /\ IsDigit(Head(s)) THEN <<Head(s)>> \o DigitRun(Tail(s))
  ELSE <<>>

\* `{{$cndi.get_random_string(N)}}` with the digits ds written for N
RandomMacro(ds) == <<"{{", "grs(">> \o ds \o <<")", "}}">>

\* the regular expression matches at the start of s
RandomMacroAtStart(s) ==
  /\ StartsWith(s, <<"{{", "grs(">>)
  /\ StartsWith(SliceFrom(s, 2 + Len(DigitRun(SliceFrom(s, 2)))),
                <<")", "}}">>)

\* const length = parseInt(len) || 32
RequestedLength(ds) ==
  IF ds = <<>> \/ DigitsValue(ds, 0) = 0 THEN DefaultRandomLength
  ELSE DigitsValue(ds, 0)

\* the position of the leftmost match of the regular expression in s, or -1
RandomIndex(s) ==
  LET hits == {i \in 0..(Len(s) - 1) : RandomMacroAtStart(SliceFrom(s, i))}
  IN IF hits = {} THEN -1
     ELSE CHOOSE i \in hits : \A j \in hits : i <= j

RECURSIVE RandomMatches(_)
\* the digit groups of the matches of the global regular expression, left to
\* right
RandomMatches(s) ==
  LET i == RandomIndex(s)
      ds == DigitRun(SliceFrom(s, i + 2))
  IN IF i = -1 THEN <<>>
     ELSE <<ds>> \o RandomMatches(SliceFrom(s, i + Len(RandomMacro(ds))))

RECURSIVE RandomReplace(_, _)
\* output.replace(get_random_string_regexp, callback), gen holding the
\* callback's results in call order
RandomReplace(s, gen) ==
  LET i == RandomIndex(s)
      ds == DigitRun(SliceFrom(s, i + 2))
  IN IF i = -1 \/ gen = <<>> THEN s
     ELSE Slice(s, 0, i) \o Head(gen)
          \o RandomReplace(SliceFrom(s, i + Len(RandomMacro(ds))), Tail(gen))

VARIABLES randPc, randIn, randOut, randReq, randGen

randVars == <<randPc, randIn, randOut, randReq, randGen>>

RandPieces ==
  { <<"x">>, <<" ">>, <<"7">>, RandomMacro(<<>>), RandomMacro(<<"0">>),
    RandomMacro(<<"3">>), RandomMacro(<<"1", "0">>), RandomMacro(<<"0", "2">>),
    <<"{{", " ", "grs(", "2", ")", " ", "}}">>, <<"{{", "grs(">>,
    <<")", "}}">>, Macro(NameA) }

RandIdle ==
  /\ randPc = "idle"
  /\ randIn = <<>>
  /\ randOut = <<>>
  /\ randReq = <<>>
  /\ randGen = <<>>

RandInit ==
  /\ randPc = "start"
  /\ randIn \in TextsOf(RandPieces, MaxPieces)
  /\ randOut = <<>>
  /\ randReq = <<>>
  /\ randGen = <<>>

\* literalizeGetRandomStringCalls(input): every match is replaced by the
\* string its own getRandomString call returns
literalizeGetRandomStringCalls ==
  /\ randPc = "start"
  /\ LET output == removeWhitespaceBetweenBraces(randIn)
         ms == RandomMatches(output)
     IN \E seeds \in [1..Len(ms) -> Seeds] :
          LET gen == [j \in 1..Len(ms) |->
                        getRandomString(
                          RandomBytes(RequestedLength(ms[j]), seeds[j]))]
          IN /\ randReq' = ms
             /\ randGen' = gen
             /\ randOut' = RandomReplace(output, gen)
  /\ randPc' = "done"
  /\ UNCHANGED randIn

----------------------------------------------------------------------------
(* One useTemplate call.  pc is the call's position; tpl the validated      *)
(* template body; opts the call's options; result what the call returned    *)
(* (kind "none" while it runs, "ok", "err" with the ErrOut code, or "throw" *)
(* for an exception that leaves the function); fetched the log of the       *)
(* network fetches issued so far, in order.                                 *)

VARIABLES pc, opts, tpl, result, fetched

callVars == <<pc, opts, tpl, result, fetched>>

Template(bs, ps, cfg, readme, env, extra) ==
  [ blocks |-> bs, prompts |-> ps,
    outputs |-> [cndi_config |-> cfg, readme |-> readme, env |-> env,
                 extra_files |-> extra] ]

Options(overrides, interactive) ==
  [overrides |-> overrides, interactive |-> interactive, mode |-> "cli"]

Running == [kind |-> "none", code |-> 0, responses |-> <<>>]

ErrOut(code) == [kind |-> "err", code |-> code, responses |-> <<>>]

Thrown == [kind |-> "throw", code |-> 0, responses |-> <<>>]

Success(rs) == [kind |-> "ok", code |-> 0, responses |-> rs]

\* `x || {}` for an output section
OrEmptyMap(node) == IF Truthy(node) THEN node ELSE MapOf(<<>>)

\* what a fetch can come back with: a 2xx response with a body, another
\* status, or a rejected promise
Bodies == {<<"y">>, <<>>}

FetchOutcomes ==
  {[kind |-> "ok", body |-> b] : b \in Bodies}
  \cup {[kind |-> "status", body |-> <<>>], [kind |-> "reject", body |-> <<>>]}

\* new URL(s) succeeds: the text starts with a scheme
IsURL(s) == s # <<>> /\ Head(s) \in {"https://", "file://"}

----------------------------------------------------------------------------
(* processCNDIReadmeOutput                                                 *)

VARIABLES rdIdx, readmeLines

rdVars == <<rdIdx, readmeLines>>

RdIdle ==
  /\ rdIdx = 0
  /\ readmeLines = <<>>

\* identifier.includes("/")
HasSlash(s) ==
  \E i \in 1..Len(s) : s[i] \in {"/", "./", "https://", "file://"}

\* key.split(opener)[1].split(")")[0]
CallIdentifier(key, opener) ==
  LET o == IndexOf(key, opener, 0)
      after == SliceFrom(key, o + Len(opener))
      next == IndexOf(after, opener, 0)
      part == IF next = -1 THEN after ELSE Slice(after, 0, next)
      c == IndexOf(part, <<")">>, 0)
  IN IF c = -1 THEN part ELSE Slice(part, 0, c)

\* util/fs.ts makeAbsolutePath: the absolute form of a relative path
makeAbsolutePath(path) == <<"/", "cwd", "/">> \o path

\* getStringForIdentifier up to its fetch: the URL handed to fetch(), or no
\* URL at all when the identifier is neither a URL nor a path
StringURL(identifier) ==
  IF IsURL(identifier) THEN [some |-> TRUE, url |-> identifier]
  ELSE IF HasSlash(identifier)
  THEN [some |-> TRUE, url |-> <<"file://">> \o makeAbsolutePath(identifier)]
  ELSE [some |-> FALSE, url |-> <<>>]

\* `<!-- ${text} -->`
HtmlComment(text) == <<"<!--", " ">> \o text \o <<" ", "-->">>

\* the message of the ErrOut with code 1201
FetchStringFailed == <<"1201">>

\* readmeSpec: the parsed, literalized outputs.readme
ReadmeSpec ==
  Parse(literalizeGetPromptResponseCallsWith(
          removeWhitespaceBetweenBraces(
            Stringify(OrEmptyMap(tpl.outputs.readme))),
          responses))

\* the entries the for-in loop visits
ReadmeKeysOf(readmeSpec) ==
  IF readmeSpec.t = "map" THEN readmeSpec.kv ELSE <<>>

ReadmeKeys == ReadmeKeysOf(ReadmeSpec)

\* YAML.parse(readmeSpecStr) throws
RdParseThrows ==
  /\ pc = "readme"
  /\ ReadmeSpec = ParseError
  /\ result' = Thrown
  /\ pc' = "returned"
  /\ UNCHANGED <<opts, tpl, fetched, rdVars, storeVars>>

\* a turn of the for-in loop on a key starting with $cndi.get_block
RdKeyBlock ==
  /\ pc = "readme"
  /\ \E keys \in {ReadmeKeys} :
       /\ rdIdx < Len(keys)
       /\ StartsWith(keys[rdIdx + 1].k, <<"gb(">>)
  /\ result' = ErrOut(1204)
  /\ pc' = "returned"
  /\ UNCHANGED <<opts, tpl, fetched, rdVars, storeVars>>

\* a turn on a key starting with $cndi.get_string
RdKeyString ==
  /\ pc = "readme"
  /\ \E keys \in {ReadmeKeys} :
       /\ rdIdx < Len(keys)
       /\ StartsWith(keys[rdIdx + 1].k, <<"gs(">>)
       /\ \E target \in {StringURL(CallIdentifier(keys[rdIdx + 1].k,
                                                  <<"gs(">>))} :
            IF target.some
            THEN /\ fetched' = Append(fetched, target.url)
                 /\ \E r \in FetchOutcomes :
                      readmeLines' =
                        Append(readmeLines,
                               IF r.kind = "ok" THEN r.body
                               ELSE HtmlComment(FetchStringFailed))
            ELSE /\ fetched' = fetched
                 /\ readmeLines' = Append(readmeLines,
                                          HtmlComment(FetchStringFailed))
  /\ rdIdx' = rdIdx + 1
  /\ UNCHANGED <<pc, opts, tpl, result, storeVars>>

\* a turn on a key starting with $cndi.comment
RdKeyComment ==
  /\ pc = "readme"
  /\ \E keys \in {ReadmeKeys} :
       /\ rdIdx < Len(keys)
       /\ StartsWith(keys[rdIdx + 1].k, <<"cm(">>)
       /\ readmeLines' = Append(readmeLines,
                                HtmlComment(ToStr(keys[rdIdx + 1].v)))
  /\ rdIdx' = rdIdx + 1
  /\ UNCHANGED <<callVars, storeVars>>

\* a turn on any other key
RdKeyText ==
  /\ pc = "readme"
  /\ \E keys \in {ReadmeKeys} :
       /\ rdIdx < Len(keys)
       /\ keys[rdIdx + 1].k = <<>>
          \/ Head(keys[rdIdx + 1].k) \notin {"gb(", "gs(", "cm("}
       /\ readmeLines' = Append(readmeLines, ToStr(keys[rdIdx + 1].v))
  /\ rdIdx' = rdIdx + 1
  /\ UNCHANGED <<callVars, storeVars>>

\* the loop is over: the readme is the lines joined, and useTemplate goes on
\* to the env output
RdDone ==
  /\ pc = "readme"
  /\ \E readmeSpec \in {ReadmeSpec} :
       /\ readmeSpec # ParseError
       /\ rdIdx = Len(ReadmeKeysOf(readmeSpec))
  /\ pc' = "env"
  /\ UNCHANGED <<opts, tpl, result, fetched, rdVars, storeVars>>

ReadmeKeySet ==
  { <<"gb(", "foo", ")">>, <<"gs(", "https://", "u", ")">>,
    <<"gs(", "n", ")">>, <<"gs(", "./", "p", ")">>,
    <<"cm(", "c", ")">>, <<"title">>, <<"{{", "gpr(", "a", ")", "}}">> }

ReadmeValues == {Str(<<"x">>), Str(<<"{{", "gpr(", "a", ")", "}}">>), Null}

----------------------------------------------------------------------------
(* resolveCNDIPromptCondition and getBlockForIdentifier                    *)

\* parseInt's result on a text that does not start with a digit
NaN == [t |-> "nan", s |-> <<>>, n |-> 0, kv |-> <<>>]

\* parseInt(text)
parseInt(text) ==
  IF DigitRun(text) = <<>> THEN NaN ELSE Num(DigitsValue(DigitRun(text), 0))

\* util/conditions.ts CNDITemplateComparators: the names of the table
ComparatorNames == {<<"==">>, <<"!=">>, <<">">>, <<"<">>}

\* CNDITemplateComparators[comparator](val, standard)
Compare(comparator, val, standard) ==
  CASE comparator = <<"==">> -> val = standard /\ val # NaN
    [] comparator = <<"!=">> -> ~(val = standard /\ val # NaN)
    [] comparator = <<">">> ->
         val.t = "num" /\ standard.t = "num" /\ val.n > standard.n
    [] comparator = <<"<">> ->
         val.t = "num" /\ standard.t = "num" /\ val.n < standard.n
    [] OTHER -> FALSE

\* the i-th element of the destructured condition; undefined past its end
TupleAt(condition, i) ==
  IF condition.t = "seq" /\ i <= Len(condition.kv) THEN condition.kv[i].v
  ELSE Undefined

\* the call leaves resolveCNDIPromptCondition with a TypeError: the
\* condition is not a list, or the table has no such comparator
ConditionThrows(condition) ==
  \/ condition.t # "seq"
  \/ TupleAt(condition, 2).t # "str"
  \/ TupleAt(condition, 2).s \notin ComparatorNames

\* resolveCNDIPromptCondition(condition) with the Response Store `store`
resolveCNDIPromptCondition(condition, store) ==
  LET input == TupleAt(condition, 1)
      comparator == TupleAt(condition, 2).s
      standard == TupleAt(condition, 3)
      literal == literalizeGetPromptResponseCallsWith(input.s, store)
      val == IF input.t # "str" THEN input
             ELSE IF standard.t = "num" THEN parseInt(input.s)
             ELSE IF standard.t = "bool" THEN Bool(literal = <<"true">>)
             ELSE Str(literal)
  IN Compare(comparator, val, standard)

\* condPc: whether resolveCNDIPromptCondition was called on condIn;
\* verdict: what it returned
VARIABLES condPc, condIn, verdict

condVars == <<condPc, condIn, verdict>>

CondIdle ==
  /\ condPc = "idle"
  /\ condIn = Undefined
  /\ verdict = FALSE

\* a call of resolveCNDIPromptCondition that returns
ResolveCondition ==
  /\ condPc = "ready"
  /\ ~ConditionThrows(condIn)
  /\ verdict' = resolveCNDIPromptCondition(condIn, responses)
  /\ condPc' = "done"
  /\ UNCHANGED condIn

\* a call that leaves with a TypeError
ResolveConditionThrows ==
  /\ condPc = "ready"
  /\ ConditionThrows(condIn)
  /\ condPc' = "thrown"
  /\ UNCHANGED <<condIn, verdict>>

\* body?.condition
ConditionOf(body) ==
  IF body.t = "map" THEN MapGet(body.kv, <<"condition">>) ELSE Undefined

\* body?.args
ArgsOf(body) ==
  IF body.t = "map" THEN MapGet(body.kv, <<"args">>) ELSE Undefined

\* the block bodies a fetch can return: YAML texts, and one that is not YAML
BlockBodies ==
  { <<"k", ":", " ", "v", "\n">>, <<"k", ":", " ", "'", "'", "\n">>,
    <<"k", ":", " ", "'", "\n">> }

BlockFetchOutcomes ==
  {[kind |-> "ok", body |-> b] : b \in BlockBodies}
  \cup {[kind |-> "status", body |-> <<>>], [kind |-> "reject", body |-> <<>>]}

BlockOk(text) == [kind |-> "ok", code |-> 0, text |-> text]

BlockErr(code) == [kind |-> "err", code |-> code, text |-> <<>>]

\* the URL getBlockForIdentifier fetches, none for a bare name
BlockURL(blockIdentifier) == StringURL(blockIdentifier)

\* getBlockForIdentifier(blockIdentifier) with the Named-Block Store `bs`;
\* r is what the fetch comes back with when the identifier is not a bare name
getBlockForIdentifier(blockIdentifier, bs, r) ==
  IF ~BlockURL(blockIdentifier).some
  THEN LET blockContent == MapGet(bs, blockIdentifier)
       IN IF ~Truthy(blockContent)
          THEN (IF blockContent = Null THEN BlockOk(Stringify(Null))
                ELSE BlockErr(1208))
          ELSE BlockOk(Stringify(blockContent))
  ELSE IF r.kind # "ok" THEN BlockErr(1201)
  ELSE IF Parse(r.body) = ParseError THEN BlockErr(1202)
  ELSE BlockOk(r.body)

\* util/strings.ts unwrapQuotes: a text between a pair of quotes loses them
unwrapQuotes(s) ==
  IF Len(s) >= 2 /\ Head(s) = "'" /\ s[Len(s)] = "'"
  THEN Slice(s, 1, Len(s) - 1) ELSE s

\* literalizeGetRandomStringCalls(input), the bytes drawn with `seed`
literalizeGetRandomStringCallsWith(input, seed) ==
  LET output == removeWhitespaceBetweenBraces(input)
      ms == RandomMatches(output)
  IN RandomReplace(output,
       [j \in 1..Len(ms) |->
          getRandomString(RandomBytes(RequestedLength(ms[j]), seed))])

\* a property key that is an array index: such keys come first, in numeric
\* order, when the keys of an object are enumerated
IsIndexKey(k) == AllDigits(k) /\ (Len(k) = 1 \/ Head(k) # "0")

\* obj[k] = v on an object whose entries are kept in enumeration order
ObjSet(obj, k, v) ==
  IF MapHas(obj, k) \/ ~IsIndexKey(k) THEN MapSet(obj, k, v)
  ELSE LET before == {i \in 1..Len(obj) :
                        /\ IsIndexKey(obj[i].k)
                        /\ DigitsValue(obj[i].k, 0) < DigitsValue(k, 0)}
           n == Cardinality(before)
       IN SubSeq(obj, 1, n) \o <<Entry(k, v)>> \o SubSeq(obj, n + 1, Len(obj))

\* the entries a for-in loop over a parsed value visits
ForInEntries(node) ==
  CASE node.t \in {"map", "seq"} -> node.kv
    [] node.t = "str" ->
         [i \in 1..Len(node.s) |-> Entry(NumStr(i - 1), Str(<<node.s[i]>>))]
    [] OTHER -> <<>>

----------------------------------------------------------------------------
(* processCNDIEnvOutput                                                    *)

VARIABLES envIdx, envKeys, envSpec, envLines

envVars == <<envIdx, envKeys, envSpec, envLines>>

EnvIdle ==
  /\ envIdx = 0
  /\ envKeys = <<>>
  /\ envSpec = <<>>
  /\ envLines = <<>>

\* YAML.parse(literalizeGetPromptResponseCalls(YAML.stringify(envSpecRaw)))
ParsedEnvSpec ==
  Parse(literalizeGetPromptResponseCallsWith(
          Stringify(OrEmptyMap(tpl.outputs.env)), responses))

\* the entry of the processor: envSpec is parsed, or YAML.parse throws
EnvBegin ==
  /\ pc = "env"
  /\ \E parsed \in {ParsedEnvSpec} :
       IF parsed = ParseError
       THEN /\ result' = Thrown
            /\ pc' = "returned"
            /\ UNCHANGED envVars
       ELSE /\ \E entries \in {ForInEntries(parsed)} :
                 /\ envSpec' = entries
                 /\ envKeys' = [i \in 1..Len(entries) |-> entries[i].k]
            /\ pc' = "env_merge"
            /\ UNCHANGED <<result, envIdx, envLines>>
  /\ UNCHANGED <<opts, tpl, fetched, storeVars>>

\* a turn of the first loop on a key that is not a $cndi.get_block call
EnvKeyPlain ==
  /\ pc = "env_merge"
  /\ envIdx < Len(envKeys)
  /\ ~StartsWith(envKeys[envIdx + 1], <<"gb(">>)
  /\ envIdx' = envIdx + 1
  /\ UNCHANGED <<callVars, envKeys, envSpec, envLines, storeVars>>

\* a turn on a $cndi.get_block key whose condition is present and cannot be
\* evaluated
EnvConditionThrows ==
  /\ pc = "env_merge"
  /\ envIdx < Len(envKeys)
  /\ LET key == envKeys[envIdx + 1]
         condition == ConditionOf(MapGet(envSpec, key))
     IN /\ StartsWith(key, <<"gb(">>)
        /\ Truthy(condition)
        /\ ConditionThrows(condition)
  /\ result' = Thrown
  /\ pc' = "returned"
  /\ UNCHANGED <<opts, tpl, fetched, envVars, storeVars>>

\* a turn on a $cndi.get_block key whose condition is present and unmet
EnvBlockSkipped ==
  /\ pc = "env_merge"
  /\ envIdx < Len(envKeys)
  /\ LET key == envKeys[envIdx + 1]
         condition == ConditionOf(MapGet(envSpec, key))
     IN /\ StartsWith(key, <<"gb(">>)
        /\ Truthy(condition)
        /\ ~ConditionThrows(condition)
        /\ ~resolveCNDIPromptCondition(condition, responses)
  /\ envIdx' = envIdx + 1
  /\ UNCHANGED <<callVars, envKeys, envSpec, envLines, storeVars>>

RECURSIVE MergeBlock(_, _, _)
\* the loop over the keys of the parsed block: each value is literalized and
\* wrapped in quotes
MergeBlock(spec, entries, store) ==
  IF entries = <<>> THEN spec
  ELSE MergeBlock(
         ObjSet(spec, Head(entries).k,
                Str(<<"'">>
                    \o literalizeGetPromptResponseCallsWith(
                         ToStr(Head(entries).v), store)
                    \o <<"'">>)),
         Tail(entries), store)

\* a turn on a $cndi.get_block key whose condition is absent or met: the
\* block is resolved and its entries are merged into envSpec
EnvBlock ==
  /\ pc = "env_merge"
  /\ envIdx < Len(envKeys)
  /\ LET key == envKeys[envIdx + 1]
         condition == ConditionOf(MapGet(envSpec, key))
         identifier == CallIdentifier(key, <<"gb(">>)
     IN /\ StartsWith(key, <<"gb(">>)
        /\ Truthy(condition) =>
             /\ ~ConditionThrows(condition)
             /\ resolveCNDIPromptCondition(condition, responses)
        /\ \E r \in BlockFetchOutcomes, url \in {BlockURL(identifier)} :
             \E got \in {getBlockForIdentifier(identifier, blocks, r)} :
               /\ fetched' = IF url.some THEN Append(fetched, url.url)
                             ELSE fetched
               /\ IF got.kind = "err"
                  THEN /\ result' = ErrOut(got.code)
                       /\ pc' = "returned"
                       /\ UNCHANGED envVars
                  ELSE \E parsed \in {Parse(got.text)} :
                         IF parsed = ParseError
                         THEN /\ result' = ErrOut(1204)
                              /\ pc' = "returned"
                              /\ UNCHANGED envVars
                         ELSE /\ envSpec' = MergeBlock(envSpec,
                                                       ForInEntries(parsed),
                                                       responses)
                              /\ envIdx' = envIdx + 1
                              /\ UNCHANGED <<pc, result, envKeys, envLines>>
  /\ UNCHANGED <<opts, tpl, storeVars>>

\* the first loop is over
EnvMerged ==
  /\ pc = "env_merge"
  /\ envIdx = Len(envKeys)
  /\ pc' = "env_emit"
  /\ envIdx' = 0
  /\ UNCHANGED <<opts, tpl, result, fetched, envKeys, envSpec, envLines,
                 storeVars>>

\* `__${key}_PLACEHOLDER__`
Placeholder(key) == <<"__">> \o key \o <<"_PLACEHOLDER__">>

\* EnvLine with the placeholder pushed only for an empty val
EnvLineNoQuotedEmpty(key, val) ==
  IF StartsWith(key, <<"cm(">>) THEN <<<<"\n", "#", " ">> \o unwrapQuotes(val)>>
  ELSE IF StartsWith(key, <<"gb(">>) THEN <<>>
  ELSE IF val = <<>> THEN <<key \o <<"=">> \o Placeholder(key)>>
  ELSE <<key \o <<"=">> \o val>>

\* the line the second loop pushes for an entry, none for a get_block key
EnvLine(key, val) ==
  IF StartsWith(key, <<"cm(">>) THEN <<<<"\n", "#", " ">> \o unwrapQuotes(val)>>
  ELSE IF StartsWith(key, <<"gb(">>) THEN <<>>
  ELSE IF val = <<>> \/ val = <<"'", "'">>
  THEN <<key \o <<"=">> \o Placeholder(key)>>
  ELSE <<key \o <<"=">> \o val>>

\* a turn of the second loop
EnvEmit ==
  /\ pc = "env_emit"
  /\ envIdx < Len(envSpec)
  /\ \E seed \in Seeds :
       LET key == envSpec[envIdx + 1].k
           val == literalizeGetRandomStringCallsWith(
                    literalizeGetPromptResponseCallsWith(
                      ToStr(envSpec[envIdx + 1].v), responses),
                    seed)
       IN envLines' = envLines \o EnvLine(key, val)
  /\ envIdx' = envIdx + 1
  /\ UNCHANGED <<callVars, envKeys, envSpec, storeVars>>

\* the second loop is over: the .env text is the lines joined, and
\* useTemplate goes on to the extra files
EnvDone ==
  /\ pc = "env_emit"
  /\ envIdx = Len(envSpec)
  /\ pc' = "extra_files"
  /\ UNCHANGED <<opts, tpl, result, fetched, envVars, storeVars>>

----------------------------------------------------------------------------
(* Key-path search and mutation                                            *)

RECURSIVE FindFrom(_, _, _, _)
\* the for-of loop of findPathToKey from the i-th entry of obj on
FindFrom(key, obj, path, i) ==
  IF ~IsCollection(obj) \/ i > Len(obj.kv) THEN <<>>
  ELSE IF obj.kv[i].k = key THEN Append(path, key)
  ELSE LET found == FindFrom(key, obj.kv[i].v, Append(path, obj.kv[i].k), 1)
       IN IF found # <<>> THEN found ELSE FindFrom(key, obj, path, i + 1)

RECURSIVE FindLevelFrom(_, _, _, _)
\* a search that tests all the keys of a node before it goes into any of the
\* node's subtrees
FindLevelFrom(key, obj, path, i) ==
  IF ~IsCollection(obj) THEN <<>>
  ELSE IF MapHas(obj.kv, key) THEN Append(path, key)
  ELSE IF i > Len(obj.kv) THEN <<>>
  ELSE LET found == FindLevelFrom(key, obj.kv[i].v,
                                  Append(path, obj.kv[i].k), 1)
       IN IF found # <<>> THEN found ELSE FindLevelFrom(key, obj, path, i + 1)

findPathToKeyLevelFirst(key, obj) == FindLevelFrom(key, obj, <<>>, 1)

findPathToKey(key, obj) == FindFrom(key, obj, <<>>, 1)

\* a call of findPathToKey on its own: findIn is the key and the tree it is
\* called with, findOut the path it returns
VARIABLES findPc, findIn, findOut

findVars == <<findPc, findIn, findOut>>

FindIdle ==
  /\ findPc = "idle"
  /\ findIn = [key |-> <<>>, tree |-> Null]
  /\ findOut = <<>>

FindCall ==
  /\ findPc = "ready"
  /\ findOut' = findPathToKey(findIn.key, findIn.tree)
  /\ findPc' = "done"
  /\ UNCHANGED findIn

RECURSIVE GetIn(_, _)
GetIn(obj, path) ==
  IF path = <<>> THEN obj
  ELSE IF ~IsCollection(obj) THEN Undefined
  ELSE GetIn(MapGet(obj.kv, Head(path)), Tail(path))

\* deps getValueFromKeyPath: the value at the path, undefined when the path
\* is empty or leads nowhere
getValueFromKeyPath(obj, path) ==
  IF path = <<>> THEN Undefined ELSE GetIn(obj, path)

RECURSIVE SetIn(_, _, _)
SetIn(obj, path, v) ==
  [obj EXCEPT !.kv =
     [i \in 1..Len(obj.kv) |->
        IF obj.kv[i].k # Head(path) THEN obj.kv[i]
        ELSE Entry(obj.kv[i].k,
                   IF Len(path) = 1 THEN v
                   ELSE SetIn(obj.kv[i].v, Tail(path), v))]]

\* deps setValueForKeyPath on a path that exists; an empty path sets nothing
setValueForKeyPath(obj, path, v) ==
  IF path = <<>> THEN obj ELSE SetIn(obj, path, v)

RECURSIVE UnsetIn(_, _)
UnsetIn(obj, path) ==
  IF Len(path) = 1
  THEN [obj EXCEPT !.kv = SelectSeq(obj.kv, LAMBDA e : e.k # Head(path))]
  ELSE [obj EXCEPT !.kv =
          [i \in 1..Len(obj.kv) |->
             IF obj.kv[i].k # Head(path) THEN obj.kv[i]
             ELSE Entry(obj.kv[i].k, UnsetIn(obj.kv[i].v, Tail(path)))]]

\* deps unsetValueForKeyPath on a path that exists; an empty path removes
\* nothing
unsetValueForKeyPath(obj, path) ==
  IF path = <<>> THEN obj ELSE UnsetIn(obj, path)

----------------------------------------------------------------------------
(* processCNDIConfigOutput                                                 *)

VARIABLES cfgOut, cfgOpen, cfgClose, cfgNoQuote, cfgIter

cfgVars == <<cfgOut, cfgOpen, cfgClose, cfgNoQuote, cfgIter>>

CfgIdle ==
  /\ cfgOut = <<>>
  /\ cfgOpen = -1
  /\ cfgClose = -1
  /\ cfgNoQuote = -1
  /\ cfgIter = 0

MaxTurns == 3

getBlockBeginToken == <<"gb(">>

getBlockEndToken == <<")", "'", ":">>

getBlockEndTokenNoQuote == <<")", ":", "\n">>

\* util/strings.ts findPositionOfCNDICallEndToken: the position of the
\* nearest end token, quoted or not, at or after indexOpen; 0 when none
findPositionOfCNDICallEndToken(output, indexOpen) ==
  LET q == IndexOf(output, getBlockEndToken, indexOpen)
      n == IndexOf(output, getBlockEndTokenNoQuote, indexOpen)
  IN IF q = -1 /\ n = -1 THEN 0
     ELSE IF q = -1 THEN n
     ELSE IF n = -1 THEN q
     ELSE IF q < n THEN q ELSE n

RECURSIVE ReplaceArgs(_, _)
ReplaceArgs(text, entries) ==
  IF entries = <<>> THEN text
  ELSE ReplaceArgs(
         ReplaceAll(text, <<"{{", "ga(">> \o Head(entries).k \o <<")", "}}">>,
                    ToStr(Head(entries).v)),
         Tail(entries))

\* util/strings.ts processBlockBodyArgs: every `{{$cndi.get_arg(NAME)}}` of
\* the block text is replaced by the argument NAME of the call's body
processBlockBodyArgs(blockString, args) ==
  IF args.t = "map" THEN ReplaceArgs(blockString, args.kv) ELSE blockString

RECURSIVE DropLeadingSpaces(_)
DropLeadingSpaces(s) ==
  IF s # <<>> /\ Head(s) = " " THEN DropLeadingSpaces(Tail(s)) ELSE s

RECURSIVE DropTrailingSpaces(_)
DropTrailingSpaces(s) ==
  IF s # <<>> /\ s[Len(s)] = " "
  THEN DropTrailingSpaces(SubSeq(s, 1, Len(s) - 1)) ELSE s

\* the pattern of processCNDICommentCalls on one line: from the
\* `$cndi.comment(` on, the line becomes "# " and the text after the colon,
\* without the quotes around it
CommentLine(line) ==
  LET o == IndexOf(line, <<"cm(">>, 0)
      c == IF o = -1 THEN -1 ELSE IndexOf(line, <<")">>, o + 1)
      rest == DropTrailingSpaces(DropLeadingSpaces(SliceFrom(line, c + 2)))
      open == IF rest # <<>> /\ Head(rest) = "'" THEN Tail(rest) ELSE rest
      text == IF open # <<>> /\ open[Len(open)] = "'"
              THEN SubSeq(open, 1, Len(open) - 1) ELSE open
  IN IF o = -1 \/ c <= o + 1 \/ ~MatchAt(line, <<")", ":">>, c) THEN line
     ELSE Slice(line, 0, o) \o <<"#", " ">> \o text

RECURSIVE JoinLines(_)
JoinLines(lines) ==
  IF lines = <<>> THEN <<>>
  ELSE Head(lines) \o <<"\n">> \o JoinLines(Tail(lines))

processCNDICommentCalls(input) ==
  JoinLines([i \in 1..Len(SplitLines(input)) |->
               CommentLine(SplitLines(input)[i])])

distributionMap ==
  << Entry(<<"aws">>, Str(<<"eks">>)), Entry(<<"azure">>, Str(<<"aks">>)),
     Entry(<<"gcp">>, Str(<<"gke">>)), Entry(<<"dev">>, Str(<<"microk8s">>)) >>

DistributionKey == <<"deployment_target_distribution">>

\* fixUndefinedDistributionIfRequired reads a property of null or assigns
\* one to a primitive: a TypeError (YAML.parse throwing included)
FixThrows(config) == Parse(config).t # "map"

\* a test that takes the field for missing only when it is absent or
\* "undefined"
DistributionMissingWhenAbsent(obj) ==
  \/ MapGet(obj.kv, <<"distribution">>) = Undefined
  \/ MapGet(obj.kv, <<"distribution">>) = Str(<<"undefined">>)

\* the test of fixUndefinedDistributionIfRequired
DistributionMissing(obj) ==
  \/ ~Truthy(MapGet(obj.kv, <<"distribution">>))
  \/ MapGet(obj.kv, <<"distribution">>) = Str(<<"undefined">>)

\* distributionMap[provider] || null
DistributionOf(provider) ==
  IF provider.t = "str" /\ MapHas(distributionMap, provider.s)
  THEN MapGet(distributionMap, provider.s) ELSE Null

DistributionFor(obj) == DistributionOf(MapGet(obj.kv, <<"provider">>))

FixedObject(obj) ==
  IF DistributionMissing(obj)
  THEN MapOf(ObjSet(obj.kv, <<"distribution">>, DistributionFor(obj)))
  ELSE obj

\* the text fixUndefinedDistributionIfRequired returns
FixedConfig(config) == Stringify(FixedObject(Parse(config)))

FixedStore(obj, store) ==
  IF DistributionMissing(obj)
  THEN MapSet(store, DistributionKey, DistributionFor(obj))
  ELSE store

\* the default is recorded under the name of the config field
FixedResponsesUnderField(config, store) ==
  IF DistributionMissing(Parse(config))
  THEN MapSet(store, <<"distribution">>, DistributionFor(Parse(config)))
  ELSE store

\* the Response Store fixUndefinedDistributionIfRequired leaves
FixedResponses(config, store) == FixedStore(Parse(config), store)

\* the condition of the while loop
CfgLooping ==
  cfgOpen > -1 /\ (cfgClose > -1 \/ cfgNoQuote > -1)

\* indexClose of a turn: the quoted end token, or the unquoted one when no
\* body is found under the key read with the quoted one
CfgIndexClose(obj) ==
  IF Truthy(getValueFromKeyPath(
              obj, findPathToKey(Slice(cfgOut, cfgOpen, cfgClose + 1), obj)))
  THEN cfgClose
  ELSE IndexOf(cfgOut, getBlockEndTokenNoQuote, cfgOpen)

\* key, pathToKey and body of a turn
CfgTurnAt(obj, key, pathToKey) ==
  [ obj |-> obj, key |-> key, pathToKey |-> pathToKey,
    body |-> getValueFromKeyPath(obj, pathToKey),
    parentPath |-> Slice(pathToKey, 0, -1) ]

CfgTurnWith(obj, key) == CfgTurnAt(obj, key, findPathToKey(key, obj))

CfgTurnOf(obj) ==
  CfgTurnWith(obj, Slice(cfgOut, cfgOpen, CfgIndexClose(obj) + 1))

\* the head of a turn of the loop: cndiConfigObj parsed from output, then
\* indexClose, key, pathToKey and body
CfgTurn == CfgTurnOf(Parse(cfgOut))

\* the end of a turn: the object is serialized and the next call is looked
\* for
CfgRescanAt(output, indexOpen) ==
  /\ cfgOut' = output
  /\ cfgOpen' = indexOpen
  /\ cfgClose' = IF findPositionOfCNDICallEndToken(output, indexOpen) = 0
                 THEN -1
                 ELSE findPositionOfCNDICallEndToken(output, indexOpen)
  /\ cfgIter' = cfgIter + 1
  /\ UNCHANGED cfgNoQuote

CfgRescanText(output) ==
  \E indexOpen \in {IndexOf(output, getBlockBeginToken, 0)} :
    CfgRescanAt(output, indexOpen)

CfgRescan(obj) == \E output \in {Stringify(obj)} : CfgRescanText(output)

\* the loop variables before the first test of the loop
CfgScan(output, indexOpen) ==
  /\ cfgOut' = output
  /\ cfgOpen' = indexOpen
  /\ cfgClose' = IndexOf(output, getBlockEndToken, indexOpen)
  /\ cfgNoQuote' = IndexOf(output, getBlockEndTokenNoQuote, indexOpen)

CfgScanText(output) ==
  \E indexOpen \in {IndexOf(output, getBlockBeginToken, 0)} :
    CfgScan(output, indexOpen)

\* the entry of the processor, up to the first test of the loop
CfgBegin ==
  /\ pc = "config"
  /\ \E seed \in Seeds :
       \E cndiConfigObj \in {Parse(Stringify(
                                OrEmptyMap(tpl.outputs.cndi_config)))} :
         \E serialized \in {removeWhitespaceBetweenBraces(
                              Stringify(cndiConfigObj))} :
           \E literalized \in {literalizeGetPromptResponseCallsWith(
                                 serialized, responses)} :
             \E output \in {literalizeGetRandomStringCallsWith(
                              literalized, seed)} :
               CfgScanText(output)
  /\ cfgIter' = 0
  /\ pc' = "config_loop"
  /\ UNCHANGED <<opts, tpl, result, fetched, storeVars>>

\* a turn of the loop in which YAML.parse(output) throws
CfgParseThrows ==
  /\ pc = "config_loop"
  /\ CfgLooping
  /\ Parse(cfgOut) = ParseError
  /\ result' = Thrown
  /\ pc' = "returned"
  /\ UNCHANGED <<opts, tpl, fetched, cfgVars, storeVars>>

\* the turn finds no body under the key, with either end token
CfgNoBodyIn(turn) ==
  /\ turn.obj # ParseError
  /\ ~Truthy(turn.body)

CfgNoBody ==
  /\ pc = "config_loop"
  /\ CfgLooping
  /\ \E turn \in {CfgTurn} : CfgNoBodyIn(turn)
  /\ result' = ErrOut(1204)
  /\ pc' = "returned"
  /\ UNCHANGED <<opts, tpl, fetched, cfgVars, storeVars>>

\* the call of the turn has a condition that cannot be evaluated
CfgConditionThrowsIn(turn) ==
  /\ turn.obj # ParseError
  /\ Truthy(turn.body)
  /\ Truthy(ConditionOf(turn.body))
  /\ ConditionThrows(ConditionOf(turn.body))

CfgConditionThrows ==
  /\ pc = "config_loop"
  /\ CfgLooping
  /\ \E turn \in {CfgTurn} : CfgConditionThrowsIn(turn)
  /\ result' = Thrown
  /\ pc' = "returned"
  /\ UNCHANGED <<opts, tpl, fetched, cfgVars, storeVars>>

\* the call of the turn has a condition and the condition is unmet
CfgUnmetIn(turn) ==
  /\ pc = "config_loop"
  /\ CfgLooping
  /\ cfgIter < MaxTurns
  /\ turn.obj # ParseError
  /\ Truthy(turn.body)
  /\ Truthy(ConditionOf(turn.body))
  /\ ~ConditionThrows(ConditionOf(turn.body))
  /\ ~resolveCNDIPromptCondition(ConditionOf(turn.body), responses)

\* the else branch of shouldOutput: the key is unset, or its parent when the
\* key is the parent's only child; Object.keys throws on the parent of a
\* top-level key
CfgRemoveFrom(turn, parent) ==
  IF ~IsCollection(parent)
  THEN /\ result' = Thrown
       /\ pc' = "returned"
       /\ UNCHANGED cfgVars
  ELSE /\ CfgRescan(IF Len(parent.kv) = 1
                    THEN unsetValueForKeyPath(turn.obj, turn.parentPath)
                    ELSE unsetValueForKeyPath(turn.obj, turn.pathToKey))
       /\ UNCHANGED <<pc, result>>

CfgRemoveCallIn(turn) ==
  /\ CfgUnmetIn(turn)
  /\ CfgRemoveFrom(turn, getValueFromKeyPath(turn.obj, turn.parentPath))

\* a turn on a call whose condition is unmet
CfgRemoveCall ==
  /\ pc = "config_loop"
  /\ CfgLooping
  /\ \E turn \in {CfgTurn} : CfgRemoveCallIn(turn)
  /\ UNCHANGED <<opts, tpl, fetched, storeVars>>

\* the block text after literalization and argument substitution
CfgBlockText(blockString, body) ==
  processBlockBodyArgs(
    literalizeGetPromptResponseCallsWith(
      removeWhitespaceBetweenBraces(unwrapQuotes(blockString)), responses),
    ArgsOf(body))

\* the call of the turn has no condition, or one that is met
CfgMetIn(turn) ==
  /\ pc = "config_loop"
  /\ CfgLooping
  /\ cfgIter < MaxTurns
  /\ turn.obj # ParseError
  /\ Truthy(turn.body)
  /\ Truthy(ConditionOf(turn.body)) =>
       /\ ~ConditionThrows(ConditionOf(turn.body))
       /\ resolveCNDIPromptCondition(ConditionOf(turn.body), responses)

\* the parsed block is set at the parent of the key
CfgSplice(turn, block) ==
  IF block = ParseError
  THEN /\ result' = Thrown
       /\ pc' = "returned"
       /\ UNCHANGED cfgVars
  ELSE /\ CfgRescan(setValueForKeyPath(turn.obj, turn.parentPath, block))
       /\ UNCHANGED <<pc, result>>

\* the shouldOutput branch with the outcome of getBlockForIdentifier
CfgExpandWith(turn, got) ==
  IF got.kind = "err"
  THEN /\ result' = ErrOut(got.code)
       /\ pc' = "returned"
       /\ UNCHANGED cfgVars
  ELSE CfgSplice(turn, Parse(CfgBlockText(got.text, turn.body)))

CfgExpandOf(turn, identifier) ==
  /\ CfgMetIn(turn)
  /\ fetched' = IF BlockURL(identifier).some
                THEN Append(fetched, BlockURL(identifier).url)
                ELSE fetched
  /\ \E r \in BlockFetchOutcomes :
       CfgExpandWith(turn, getBlockForIdentifier(identifier, blocks, r))

CfgExpandIn(turn) == CfgExpandOf(turn, Slice(turn.key, 1, -1))

\* a turn on a call whose condition is absent or met: the block is resolved
\* and set at the parent of the key
CfgExpand ==
  /\ pc = "config_loop"
  /\ CfgLooping
  /\ \E turn \in {CfgTurn} : CfgExpandIn(turn)
  /\ UNCHANGED <<opts, tpl, storeVars>>

\* the text after the loop, before fixUndefinedDistributionIfRequired
CfgRendered ==
  processCNDICommentCalls(
    literalizeGetPromptResponseCallsWith(cfgOut, responses))

\* fixUndefinedDistributionIfRequired on the rendered text
CfgFix(config) ==
  IF FixThrows(config)
  THEN /\ result' = Thrown
       /\ pc' = "returned"
       /\ UNCHANGED <<cfgVars, storeVars>>
  ELSE /\ cfgOut' = FixedConfig(config)
       /\ responses' = FixedResponses(config, responses)
       /\ pc' = "readme"
       /\ UNCHANGED <<result, blocks, cfgOpen, cfgClose, cfgNoQuote, cfgIter>>

\* the loop is over: literalization again, comments, the distribution
\* default; useTemplate goes on to the readme
CfgFinish ==
  /\ pc = "config_loop"
  /\ ~CfgLooping
  /\ \E config \in {CfgRendered} : CfgFix(config)
  /\ UNCHANGED <<opts, tpl, fetched>>

-----
(* processCNDIExtraFilesOutput                                             *)

VARIABLES xfIdx, extraFiles

xfVars == <<xfIdx, extraFiles>>

XfIdle ==
  /\ xfIdx = 0
  /\ extraFiles = <<>>

\* util/fs.ts sanitizeFilePath: a path that climbs out of the project is an
\* error, any other relative path is returned
sanitizeFilePath(key) ==
  IF Includes(key, <<"..">>) THEN [err |-> TRUE, path |-> <<>>]
  ELSE [err |-> FALSE, path |-> key]

SanitizeErrorCode == 1207

ExtraFilesSpec == OrEmptyMap(tpl.outputs.extra_files).kv

\* one turn of the for-in loop over extraFilesSpec that ends in an error
\* return before any fetch
XfKeyRejected ==
  /\ pc = "extra_files"
  /\ xfIdx < Len(ExtraFilesSpec)
  /\ LET key == ExtraFilesSpec[xfIdx + 1].k
     IN /\ ~StartsWith(key, <<"./">>) \/ sanitizeFilePath(key).err
        /\ result' = IF ~StartsWith(key, <<"./">>) THEN ErrOut(1205)
                     ELSE ErrOut(SanitizeErrorCode)
  /\ pc' = "returned"
  /\ UNCHANGED <<opts, tpl, fetched, xfVars, storeVars>>

\* one turn of the loop whose content is not a URL
XfKeyLiteral ==
  /\ pc = "extra_files"
  /\ xfIdx < Len(ExtraFilesSpec)
  /\ LET key == ExtraFilesSpec[xfIdx + 1].k
         content == ToStr(ExtraFilesSpec[xfIdx + 1].v)
     IN /\ StartsWith(key, <<"./">>)
        /\ ~sanitizeFilePath(key).err
        /\ ~IsURL(content)
        /\ extraFiles' = MapSet(extraFiles, sanitizeFilePath(key).path,
                                Str(content))
  /\ xfIdx' = xfIdx + 1
  /\ UNCHANGED <<callVars, storeVars>>

\* one turn of the loop whose content is a URL: await fetch(content)
XfKeyFetched ==
  /\ pc = "extra_files"
  /\ xfIdx < Len(ExtraFilesSpec)
  /\ LET key == ExtraFilesSpec[xfIdx + 1].k
         content == ToStr(ExtraFilesSpec[xfIdx + 1].v)
     IN /\ StartsWith(key, <<"./">>)
        /\ ~sanitizeFilePath(key).err
        /\ IsURL(content)
        /\ fetched' = Append(fetched, content)
        /\ \E r \in FetchOutcomes :
             CASE r.kind = "ok" ->
                    /\ extraFiles' = MapSet(extraFiles,
                                            sanitizeFilePath(key).path,
                                            Str(r.body))
                    /\ xfIdx' = xfIdx + 1
                    /\ UNCHANGED <<pc, result>>
               [] r.kind = "status" ->
                    /\ result' = ErrOut(1206)
                    /\ pc' = "returned"
                    /\ UNCHANGED xfVars
               [] OTHER ->
                    /\ result' = Thrown
                    /\ pc' = "returned"
                    /\ UNCHANGED xfVars
  /\ UNCHANGED <<opts, tpl, storeVars>>

\* the loop is over: build `files`, return the responses without their
\* undefined entries
ReturnResult ==
  /\ pc = "extra_files"
  /\ xfIdx = Len(ExtraFilesSpec)
  /\ result' = Success(getResponsesAsRecord(responses, TRUE))
  /\ pc' = "returned"
  /\ UNCHANGED <<opts, tpl, fetched, xfVars, storeVars>>

MaxKeys == 2

ExtraKeys ==
  { <<"./", "f">>, <<"./", "g">>, <<"g">>, <<"/", "f">>,
    <<"./", "..", "/", "f">> }

ExtraContents == {Str(<<"x">>), Str(<<"https://", "u">>), Str(<<>>), Num(5)}

\* the mappings with at most n entries, keys from ks (each at most once, in
\* any order) and values from vs
MapsOf(ks, vs, n) ==
  { m \in UNION {[1..k -> {Entry(key, v) : key \in ks, v \in vs}] : k \in 0..n} :
      \A i, j \in 1..Len(m) : i # j => m[i].k # m[j].k }

----------------------------------------------------------------------------
(* useTemplate: the entry of a call and the Prompt Pipeline                *)

\* prIdx: the prompt specs of the template already gone through; imported:
\* the prompts of the import in hand still to go through; prompted and
\* validated: the names the prompt primitive was invoked for and the names
\* whose validators were run; held and heldBlocks: the Response Store and
\* the Named-Block Store as the call found them; calls: the calls of
\* useTemplate the process has seen, the one in hand included; source: what
\* the fetch of the template came back with; lastAnswer: the answer the prompt
\* primitive holds for the prompt that is presented again
VARIABLES prIdx, imported, prompted, validated, held, heldBlocks, calls,
          source, lastAnswer

pipeVars == <<prIdx, imported, prompted, validated, held, heldBlocks, calls,
              lastAnswer>>

useVars == <<pipeVars, source>>

UseIdle ==
  /\ prIdx = 0
  /\ imported = <<>>
  /\ prompted = {}
  /\ validated = {}
  /\ held = responses
  /\ heldBlocks = blocks
  /\ calls = 1
  /\ source = "none"
  /\ lastAnswer = Undefined

\* the error object getCoarselyValidatedTemplateBody answers with
ValidationError == [kind |-> "err", code |-> 0, responses |-> <<>>]

\* options.mode === "webui"
UseWebui ==
  /\ pc = "start"
  /\ opts.mode = "webui"
  /\ result' = ErrOut(1299)
  /\ pc' = "returned"
  /\ UNCHANGED <<opts, tpl, fetched, storeVars, useVars>>

RECURSIVE SetAll(_, _)
SetAll(store, entries) ==
  IF entries = <<>> THEN store
  ELSE SetAll(MapSet(store, Head(entries).k, Head(entries).v), Tail(entries))

\* the overrides are written to the Response Store
UseOverrides ==
  /\ pc = "start"
  /\ opts.mode # "webui"
  /\ responses' = SetAll(responses, opts.overrides)
  /\ pc' = "fetch"
  /\ UNCHANGED <<opts, tpl, result, fetched, blocks, useVars>>

\* what the fetch of the template comes back with: the text of tpl, a
\* rejected promise, a status that is not 2xx, a text that is not YAML, a
\* text of several documents with `---` between them, a text of one
\* document that has the line `---` before it, a YAML text that is no
\* object, and one without outputs
TemplateFetchOutcomes ==
  { "ok", "reject", "status", "not_yaml", "multi_doc", "marked_doc",
    "no_object", "no_outputs" }

\* YAML.parse(templateBodyString) throws: the text is no YAML, or it holds
\* more than one document
TemplateParseThrows == {"not_yaml", "multi_doc"}

\* the texts getTemplateBodyStringForIdentifier returns
TemplateTexts == {"ok", "marked_doc", "no_object", "no_outputs"}

\* templateBodyString.indexOf("\n---\n") > -1
HasSeparator(text) == text \in {"multi_doc", "marked_doc"}

TemplateURL == <<"https://", "t">>

\* getTemplateBodyStringForIdentifier returns an error
UseFetchFails ==
  /\ pc = "fetch"
  /\ \E r \in {"reject", "status"} \cup TemplateParseThrows :
       /\ result' = IF r \in TemplateParseThrows THEN ErrOut(1202)
                    ELSE ErrOut(1201)
       /\ source' = r
  /\ fetched' = Append(fetched, TemplateURL)
  /\ pc' = "returned"
  /\ UNCHANGED <<opts, tpl, storeVars, pipeVars>>

\* the tests of getCoarselyValidatedTemplateBody on prompts and blocks
ShapeError(body) ==
  \/ Truthy(body.prompts) /\ body.prompts.t # "seq"
  \/ Truthy(body.blocks) /\ body.blocks.t # "seq"

\* a field of a prompt spec or of a block declaration
FieldOf(pSpec, field) ==
  IF pSpec.t = "map" THEN MapGet(pSpec.kv, <<field>>) ELSE Undefined

\* the key a name is stored under
NameKey(name) == IF name.t = "str" THEN name.s ELSE ToStr(name)

RECURSIVE SetBlocks(_, _)
SetBlocks(bs, staticBlocks) ==
  IF staticBlocks = <<>> THEN bs
  ELSE SetBlocks(MapSet(bs, NameKey(FieldOf(Head(staticBlocks).v, "name")),
                        FieldOf(Head(staticBlocks).v, "content")),
                 Tail(staticBlocks))

\* the blocks of the template are registered before the validation
\* rejects it
UseValidateFailsRegistered ==
  /\ pc = "fetch"
  /\ \E r \in TemplateTexts :
       /\ r = "ok" => ShapeError(tpl)
       /\ source' = r
  /\ fetched' = Append(fetched, TemplateURL)
  /\ blocks' = IF tpl.blocks.t = "seq" THEN SetBlocks(blocks, tpl.blocks.kv)
               ELSE blocks
  /\ result' = ValidationError
  /\ pc' = "returned"
  /\ UNCHANGED <<opts, tpl, responses, pipeVars>>

\* the template is fetched and getCoarselyValidatedTemplateBody rejects it:
\* the call returns the error of the result, read as the PxResult the
\* signature of the function declares
UseValidateFails ==
  /\ pc = "fetch"
  /\ \E r \in TemplateTexts :
       /\ r = "ok" => ShapeError(tpl)
       /\ source' = r
  /\ fetched' = Append(fetched, TemplateURL)
  /\ result' = ValidationError
  /\ pc' = "returned"
  /\ UNCHANGED <<opts, tpl, storeVars, pipeVars>>

\* the template is fetched and the result of
\* getCoarselyValidatedTemplateBody, the object { error } or { value } the
\* function builds, is destructured as an array: a TypeError leaves the call
UseValidateThrows ==
  /\ pc = "fetch"
  /\ \E r \in TemplateTexts : source' = r
  /\ fetched' = Append(fetched, TemplateURL)
  /\ result' = Thrown
  /\ pc' = "returned"
  /\ UNCHANGED <<opts, tpl, storeVars, pipeVars>>

\* the template is fetched and validated, and its blocks are registered:
\* the call goes on with the value of the result, read as the PxResult the
\* signature of getCoarselyValidatedTemplateBody declares
UseLoaded ==
  /\ pc = "fetch"
  /\ ~ShapeError(tpl)
  /\ source' = "ok"
  /\ fetched' = Append(fetched, TemplateURL)
  /\ blocks' = IF tpl.blocks.t = "seq" THEN SetBlocks(blocks, tpl.blocks.kv)
               ELSE blocks
  /\ pc' = "prompts"
  /\ UNCHANGED <<opts, tpl, result, responses, pipeVars>>

\* coarselyValidatedTemplateBody.prompts || []
PromptSpecs == IF tpl.prompts.t = "seq" THEN tpl.prompts.kv ELSE <<>>

InPipeline == pc = "prompts" /\ prIdx < Len(PromptSpecs)

\* the pSpec of the turn
CurrentSpec == PromptSpecs[prIdx + 1].v

\* pSpec?.name && $cndi.responses.has(`${pSpec.name}`)
Answered(pSpec, store) ==
  /\ Truthy(FieldOf(pSpec, "name"))
  /\ MapHas(store, ToStr(FieldOf(pSpec, "name")))

\* Object.keys(pSpec).length === 1
promptIsImportStatement(pSpec) == pSpec.t = "map" /\ Len(pSpec.kv) = 1

\* a turn of the loop on a spec whose name is answered already
PromptSkip ==
  /\ InPipeline
  /\ Answered(CurrentSpec, responses)
  /\ prIdx' = prIdx + 1
  /\ UNCHANGED <<imported, prompted, validated, held, heldBlocks, calls,
               source, lastAnswer>>
  /\ UNCHANGED <<callVars, storeVars>>

\* the default is stored after the literalization the interactive path
\* gives it
StoreDefaultLiteralized(prompt, store) ==
  MapSet(store, NameKey(FieldOf(prompt, "name")),
         IF FieldOf(prompt, "default").t = "str"
         THEN Str(literalizeGetRandomStringCallsWith(
                    literalizeGetPromptResponseCallsWith(
                      FieldOf(prompt, "default").s, store),
                    <<0, 1>>))
         ELSE FieldOf(prompt, "default"))

\* $cndi.responses.set(name, default)
StoreDefault(prompt, store) ==
  MapSet(store, NameKey(FieldOf(prompt, "name")), FieldOf(prompt, "default"))

\* a turn on a prompt literal, not interactive
PromptDefault ==
  /\ InPipeline
  /\ ~Answered(CurrentSpec, responses)
  /\ ~promptIsImportStatement(CurrentSpec)
  /\ ~opts.interactive
  /\ responses' = StoreDefault(CurrentSpec, responses)
  /\ prIdx' = prIdx + 1
  /\ UNCHANGED <<imported, prompted, validated, held, heldBlocks, calls,
               source, lastAnswer>>
  /\ UNCHANGED <<callVars, blocks>>

\* util/validation.ts BuiltInValidators: the names of the table
BuiltInValidators == {<<"min_length">>}

\* validatorName and arg of a validatorSpec
ValidatorName(validatorSpec) ==
  IF validatorSpec.t = "str" THEN validatorSpec.s
  ELSE IF validatorSpec.t = "map" /\ validatorSpec.kv # <<>>
  THEN validatorSpec.kv[1].k ELSE <<"undefined">>

ValidatorArg(validatorSpec) ==
  IF validatorSpec.t = "map" /\ validatorSpec.kv # <<>>
  THEN validatorSpec.kv[1].v ELSE Undefined

\* the validator reports an error on the value
ValidationFails(validatorName, value, arg) ==
  arg.t = "num" /\ Len(ToStr(value)) < arg.n

\* the for loop over promptDefinition.validators: a validator is missing
\* from the table, a validator reports an error, or all pass
RECURSIVE RunValidators(_, _)
RunValidators(validators, value) ==
  IF validators = <<>> THEN "pass"
  ELSE IF ValidatorName(Head(validators).v) \notin BuiltInValidators
  THEN "throw"
  ELSE IF ValidationFails(ValidatorName(Head(validators).v), value,
                          ValidatorArg(Head(validators).v))
  THEN "error"
  ELSE RunValidators(Tail(validators), value)

\* the ways a prompt presentation ends
Hidden == [kind |-> "hidden", value |-> Undefined, shown |-> FALSE,
           validated |-> FALSE]

ConditionFailure == [kind |-> "throw", value |-> Undefined, shown |-> FALSE,
                     validated |-> FALSE]

Retry(value, ran) == [kind |-> "retry", value |-> value, shown |-> TRUE,
                      validated |-> ran]

ValidatorMissing == [kind |-> "throw", value |-> Undefined, shown |-> TRUE,
                     validated |-> TRUE]

Stored(value, ran) == [kind |-> "stored", value |-> value, shown |-> TRUE,
                       validated |-> ran]

\* the after hook from `if (value)` on
AfterValue(validators, value) ==
  IF Truthy(value) /\ validators.t = "seq" /\ validators.kv # <<>>
  THEN CASE RunValidators(validators.kv, value) = "throw" -> ValidatorMissing
         [] RunValidators(validators.kv, value) = "error" -> Retry(value, TRUE)
         [] OTHER -> Stored(value, TRUE)
  ELSE Stored(value, FALSE)

\* what Deno.readTextFileSync does with the path
FileReads ==
  { [kind |-> "data", text |-> <<"d">>], [kind |-> "empty", text |-> <<>>],
    [kind |-> "throws", text |-> <<>>] }

\* the after hook of the prompt, with the answer the primitive collected
\* (undefined: no answer under the name) and the outcome of the file read
AfterAnswer(promptDefinition, answer, file) ==
  IF Truthy(FieldOf(promptDefinition, "required")) /\ answer = Undefined
  THEN Retry(answer, FALSE)
  ELSE IF FieldOf(promptDefinition, "type") # Str(<<"File">>)
  THEN AfterValue(FieldOf(promptDefinition, "validators"), answer)
  ELSE IF ~Truthy(answer) THEN Retry(answer, FALSE)
  ELSE IF answer.t # "str"
  THEN AfterValue(FieldOf(promptDefinition, "validators"), answer)
  ELSE IF file.kind # "data" THEN Retry(answer, FALSE)
  ELSE AfterValue(FieldOf(promptDefinition, "validators"), Str(file.text))

\* promptDefinition.default after the literalization of a string default
LiteralizedDefault(default, store, seed) ==
  IF default.t = "str" /\ default.s # <<>>
  THEN Str(literalizeGetRandomStringCallsWith(
             literalizeGetPromptResponseCallsWith(default.s, store), seed))
  ELSE default

\* what the user can type
UserAnswers == {Undefined, Str(<<>>), Str(<<"x">>), Str(<<"x", "y">>)}

\* the answers the prompt primitive can collect: what the user typed, or the
\* default when there is one
Answers(default) ==
  UserAnswers \cup (IF Truthy(default) THEN {default} ELSE {})

Shown(promptDefinition, default) ==
  { AfterAnswer(promptDefinition, answer, file) :
      answer \in Answers(default), file \in FileReads }

\* a presentation that shows the prompt whatever its condition
presentCliffyPromptUnconditional(promptDefinition, store) ==
  UNION { Shown(promptDefinition,
                LiteralizedDefault(FieldOf(promptDefinition, "default"),
                                   store, seed)) : seed \in Seeds }

\* presentCliffyPrompt(promptDefinition): the ways it can end
presentCliffyPrompt(promptDefinition, store) ==
  IF /\ Truthy(FieldOf(promptDefinition, "condition"))
     /\ ConditionThrows(FieldOf(promptDefinition, "condition"))
  THEN {ConditionFailure}
  ELSE IF /\ Truthy(FieldOf(promptDefinition, "condition"))
          /\ ~resolveCNDIPromptCondition(
                FieldOf(promptDefinition, "condition"), store)
  THEN {Hidden}
  ELSE UNION { Shown(promptDefinition,
                     LiteralizedDefault(FieldOf(promptDefinition, "default"),
                                        store, seed)) : seed \in Seeds }

\* the stores and the logs after a presentation
Presented(key, outcome) ==
  /\ prompted' = IF outcome.shown THEN prompted \cup {key} ELSE prompted
  /\ validated' = IF outcome.validated THEN validated \cup {key}
                  ELSE validated
  /\ responses' = IF outcome.kind = "stored"
                  THEN MapSet(responses, key, outcome.value) ELSE responses
  /\ result' = IF outcome.kind = "throw" THEN Thrown ELSE result
  /\ pc' = IF outcome.kind = "throw" THEN "returned" ELSE pc
  /\ lastAnswer' = IF outcome.kind = "retry" THEN outcome.value ELSE Undefined
  /\ UNCHANGED <<opts, tpl, fetched, blocks, held, heldBlocks, calls, source>>

\* a turn on a prompt literal, interactive: the prompt is presented again
\* after a retry, the turn is over once the answer is stored or the prompt
\* is hidden
PromptPresentWith(pSpec, outcome) ==
  /\ Presented(NameKey(FieldOf(pSpec, "name")), outcome)
  /\ prIdx' = IF outcome.kind \in {"stored", "hidden"} THEN prIdx + 1
              ELSE prIdx
  /\ UNCHANGED imported

PromptPresent ==
  /\ InPipeline
  /\ ~Answered(CurrentSpec, responses)
  /\ ~promptIsImportStatement(CurrentSpec)
  /\ opts.interactive
  /\ \E outcome \in presentCliffyPrompt(CurrentSpec, responses) :
       PromptPresentWith(CurrentSpec, outcome)

\* the tokens that end with an opening parenthesis
CallTokens == {"gb(", "gs(", "gpr(", "grs(", "cm(", "ga("}

\* importStatement.indexOf("("), in tokens
RECURSIVE IndexOfParen(_, _)
IndexOfParen(text, from) ==
  IF from >= Len(text) THEN -1
  ELSE IF text[from + 1] \in CallTokens THEN from
  ELSE IndexOfParen(text, from + 1)

\* the identifier between the parentheses of the import statement
ImportIdentifier(statement, store) ==
  literalizeGetPromptResponseCallsWith(
    Slice(statement, IndexOfParen(statement, 0) + 1,
          LastIndexOf(statement, <<")">>)),
    store)

\* the results of fetchPromptBlockForImportStatement
ImportOk(prompts, urls) ==
  [kind |-> "ok", code |-> 0, prompts |-> prompts, urls |-> urls]

ImportErr(code, urls) ==
  [kind |-> "err", code |-> code, prompts |-> <<>>, urls |-> urls]

ImportThrows(urls) ==
  [kind |-> "throw", code |-> 0, prompts |-> <<>>, urls |-> urls]

\* the parsed text of the block is the list of the imported prompts
ImportParsed(importedPromptsArray, urls) ==
  IF importedPromptsArray = ParseError THEN ImportThrows(urls)
  ELSE IF importedPromptsArray.t = "seq"
  THEN ImportOk([i \in 1..Len(importedPromptsArray.kv) |->
                   importedPromptsArray.kv[i].v], urls)
  ELSE ImportErr(1299, urls)

ImportResolved(got, body, store, urls) ==
  IF got.kind = "err" THEN ImportErr(got.code, urls)
  ELSE CHOOSE res \in
         {ImportParsed(importedPromptsArray, urls) :
            importedPromptsArray \in
              {Parse(text) :
                 text \in
                   {literalizeGetPromptResponseCallsWith(withArgs, store) :
                      withArgs \in
                        {processBlockBodyArgs(
                           removeWhitespaceBetweenBraces(got.text),
                           ArgsOf(body))}}}} : TRUE

ImportFrom(identifier, body, bs, store, r) ==
  CHOOSE res \in
    {ImportResolved(got, body, store,
                    IF BlockURL(identifier).some
                    THEN <<BlockURL(identifier).url>> ELSE <<>>) :
       got \in {getBlockForIdentifier(identifier, bs, r)}} : TRUE

\* the block is resolved before the condition of the body is looked at
fetchPromptBlockResolvingFirst(importStatement, body, bs, store, r) ==
  IF Truthy(ConditionOf(body)) /\ ConditionThrows(ConditionOf(body))
  THEN ImportThrows(<<>>)
  ELSE IF /\ Truthy(ConditionOf(body))
          /\ ~resolveCNDIPromptCondition(ConditionOf(body), store)
          /\ ImportFrom(
               ImportIdentifier(
                 literalizeGetPromptResponseCallsWith(
                   removeWhitespaceBetweenBraces(importStatement), store),
                 store),
               body, bs, store, r).kind = "ok"
  THEN ImportOk(<<>>,
                ImportFrom(
                  ImportIdentifier(
                    literalizeGetPromptResponseCallsWith(
                      removeWhitespaceBetweenBraces(importStatement), store),
                    store),
                  body, bs, store, r).urls)
  ELSE ImportFrom(
         ImportIdentifier(
           literalizeGetPromptResponseCallsWith(
             removeWhitespaceBetweenBraces(importStatement), store),
           store),
         body, bs, store, r)

\* fetchPromptBlockForImportStatement(importStatement, body) with the stores
\* and what the fetch comes back with
fetchPromptBlockForImportStatement(importStatement, body, bs, store, r) ==
  IF Truthy(ConditionOf(body)) /\ ConditionThrows(ConditionOf(body))
  THEN ImportThrows(<<>>)
  ELSE IF /\ Truthy(ConditionOf(body))
          /\ ~resolveCNDIPromptCondition(ConditionOf(body), store)
  THEN ImportOk(<<>>, <<>>)
  ELSE ImportFrom(
         ImportIdentifier(
           literalizeGetPromptResponseCallsWith(
             removeWhitespaceBetweenBraces(importStatement), store),
           store),
         body, bs, store, r)

PromptImportWith(got) ==
  /\ fetched' = fetched \o got.urls
  /\ result' = CASE got.kind = "err" -> ErrOut(got.code)
                 [] got.kind = "throw" -> Thrown
                 [] OTHER -> result
  /\ pc' = IF got.kind = "ok" THEN "imported" ELSE "returned"
  /\ imported' = got.prompts
  /\ UNCHANGED <<opts, tpl, storeVars, prIdx, prompted, validated, held, heldBlocks, calls,
               source, lastAnswer>>

\* a turn on a prompt import: the import statement is literalized and the
\* prompts of its block are fetched
PromptImport ==
  /\ InPipeline
  /\ ~Answered(CurrentSpec, responses)
  /\ promptIsImportStatement(CurrentSpec)
  /\ \E r \in BlockFetchOutcomes :
       \E importStatement \in
            {literalizeGetPromptResponseCallsWith(CurrentSpec.kv[1].k,
                                                  responses)} :
         \E got \in {fetchPromptBlockForImportStatement(
                       importStatement, CurrentSpec.kv[1].v, blocks,
                       responses, r)} :
           PromptImportWith(got)

\* $cndi.responses.has(prompt.name)
ImportedAnswered(prompt, store) ==
  MapHas(store, NameKey(FieldOf(prompt, "name")))

\* a turn of the inner loop on an imported prompt that is answered already
ImportedSkip ==
  /\ pc = "imported"
  /\ imported # <<>>
  /\ ImportedAnswered(Head(imported), responses)
  /\ imported' = Tail(imported)
  /\ UNCHANGED <<prIdx, prompted, validated, held, heldBlocks, calls,
               source, lastAnswer>>
  /\ UNCHANGED <<callVars, storeVars>>

\* a turn of the inner loop, not interactive
ImportedDefault ==
  /\ pc = "imported"
  /\ imported # <<>>
  /\ ~ImportedAnswered(Head(imported), responses)
  /\ ~opts.interactive
  /\ responses' = StoreDefault(Head(imported), responses)
  /\ imported' = Tail(imported)
  /\ UNCHANGED <<prIdx, prompted, validated, held, heldBlocks, calls,
               source, lastAnswer>>
  /\ UNCHANGED <<callVars, blocks>>

ImportedPresentWith(prompt, outcome) ==
  /\ Presented(NameKey(FieldOf(prompt, "name")), outcome)
  /\ imported' = IF outcome.kind \in {"stored", "hidden"} THEN Tail(imported)
                 ELSE imported
  /\ UNCHANGED prIdx

\* a turn of the inner loop, interactive
ImportedPresent ==
  /\ pc = "imported"
  /\ imported # <<>>
  /\ ~ImportedAnswered(Head(imported), responses)
  /\ opts.interactive
  /\ \E outcome \in presentCliffyPrompt(Head(imported), responses) :
       ImportedPresentWith(Head(imported), outcome)

\* the inner loop is over
ImportedDone ==
  /\ pc = "imported"
  /\ imported = <<>>
  /\ pc' = "prompts"
  /\ prIdx' = prIdx + 1
  /\ UNCHANGED <<imported, prompted, validated, held, heldBlocks, calls,
               source, lastAnswer>>
  /\ UNCHANGED <<opts, tpl, result, fetched, storeVars>>

\* the loop over the prompts is over: the outputs are processed
PromptsDone ==
  /\ pc = "prompts"
  /\ prIdx = Len(PromptSpecs)
  /\ pc' = "config"
  /\ UNCHANGED <<opts, tpl, result, fetched, storeVars, useVars>>

\* the calls of useTemplate a run of the model goes through
MaxCalls == 2

\* useTemplate is called again in the process: $cndi.responses and
\* $cndi.blocks are the maps of the module, which no code clears; all else
\* is local to the call
UseAgainWith(o, t) ==
  /\ pc = "returned"
  /\ calls < MaxCalls
  /\ calls' = calls + 1
  /\ pc' = "start"
  /\ opts' = o
  /\ tpl' = t
  /\ result' = Running
  /\ fetched' = <<>>
  /\ source' = "none"
  /\ lastAnswer' = Undefined
  /\ prIdx' = 0
  /\ imported' = <<>>
  /\ prompted' = {}
  /\ validated' = {}
  /\ held' = responses
  /\ heldBlocks' = blocks
  /\ cfgOut' = <<>>
  /\ cfgOpen' = -1
  /\ cfgClose' = -1
  /\ cfgNoQuote' = -1
  /\ cfgIter' = 0
  /\ rdIdx' = 0
  /\ readmeLines' = <<>>
  /\ envIdx' = 0
  /\ envKeys' = <<>>
  /\ envSpec' = <<>>
  /\ envLines' = <<>>
  /\ xfIdx' = 0
  /\ extraFiles' = <<>>
  /\ UNCHANGED storeVars

----------------------------------------------------------------------------
(* two calls of useTemplate in flight in one process                       *)

\* taskPc, taskOpts, taskResult: for each of the two calls, where it is, its
\* options, and the responses it returned
VARIABLES taskPc, taskOpts, taskResult

taskVars == <<taskPc, taskOpts, taskResult>>

Tasks == {1, 2}

TaskIdle ==
  /\ taskPc = [i \in Tasks |-> "idle"]
  /\ taskOpts = [i \in Tasks |-> Options(<<>>, FALSE)]
  /\ taskResult = [i \in Tasks |-> <<>>]

\* the call runs from its start to the await of the template fetch: the
\* overrides are written to the Response Store
TaskStart(i) ==
  /\ taskPc[i] = "start"
  /\ responses' = SetAll(responses, taskOpts[i].overrides)
  /\ taskPc' = [taskPc EXCEPT ![i] = "fetch"]
  /\ UNCHANGED <<blocks, taskOpts, taskResult>>

\* the for loop over prompts that are all literal, not interactive: no turn
\* awaits
RECURSIVE RunPrompts(_, _)
RunPrompts(prompts, store) ==
  IF prompts = <<>> THEN store
  ELSE RunPrompts(Tail(prompts),
                  IF Answered(Head(prompts).v, store) THEN store
                  ELSE StoreDefault(Head(prompts).v, store))

\* the fetch of the call is back: the call runs through the prompts and,
\* for outputs whose processing neither fetches nor writes a response,
\* returns the responses
TaskFinish(i) ==
  /\ taskPc[i] = "fetch"
  /\ responses' = RunPrompts(PromptSpecs, responses)
  /\ taskResult' = [taskResult EXCEPT
                      ![i] = getResponsesAsRecord(responses', TRUE)]
  /\ taskPc' = [taskPc EXCEPT ![i] = "returned"]
  /\ UNCHANGED <<blocks, taskOpts>>

----------------------------------------------------------------------------
(* Specifications                                                          *)

stageVars ==
  <<cfgVars, rdVars, envVars, xfVars, useVars, taskVars, condVars, findVars>>

StagesIdle ==
  /\ CfgIdle
  /\ RdIdle
  /\ EnvIdle
  /\ XfIdle
  /\ UseIdle
  /\ TaskIdle
  /\ CondIdle
  /\ FindIdle

vars == <<storeVars, litVars, randVars, callVars, stageVars>>

EmptyTemplate ==
  Template(Undefined, Undefined, Undefined, Undefined, Undefined, Undefined)

CallIdle ==
  /\ pc = "idle"
  /\ opts = Options(<<>>, FALSE)
  /\ tpl = EmptyTemplate
  /\ result = Running
  /\ fetched = <<>>

\* literalizeGetPromptResponseCalls on bounded texts and stores
InitLit ==
  /\ responses \in LitStores
  /\ blocks = <<>>
  /\ LitInit
  /\ RandIdle
  /\ CallIdle
  /\ StagesIdle

litOthers == <<storeVars, randVars, callVars, stageVars>>

NextLit ==
  \/ LitFirst /\ UNCHANGED litOthers
  \/ LitSecond /\ UNCHANGED litOthers

SpecLit == InitLit /\ [][NextLit]_vars

\* literalizeGetRandomStringCalls on bounded texts
InitRand ==
  /\ responses = <<>>
  /\ blocks = <<>>
  /\ LitIdle
  /\ RandInit
  /\ CallIdle
  /\ StagesIdle

NextRand ==
  literalizeGetRandomStringCalls
    /\ UNCHANGED <<storeVars, litVars, callVars, stageVars>>

SpecRand == InitRand /\ [][NextRand]_vars

\* the extra-files stage of a call, entered with nothing fetched yet
InitExtra ==
  /\ responses \in {<<>>, <<Entry(NameA, Str(<<"x">>))>>}
  /\ blocks = <<>>
  /\ LitIdle
  /\ RandIdle
  /\ pc = "extra_files"
  /\ opts = Options(<<>>, FALSE)
  /\ tpl \in {Template(Undefined, Undefined, Undefined, Undefined, Undefined, x) :
                x \in {Undefined}
                      \cup {MapOf(m) : m \in MapsOf(ExtraKeys, ExtraContents,
                                                    MaxKeys)}}
  /\ result = Running
  /\ fetched = <<>>
  /\ StagesIdle

xfOthers ==
  <<litVars, randVars, cfgVars, rdVars, envVars, useVars, taskVars,
    condVars, findVars>>

NextExtra ==
  \/ XfKeyRejected /\ UNCHANGED xfOthers
  \/ XfKeyLiteral /\ UNCHANGED xfOthers
  \/ XfKeyFetched /\ UNCHANGED xfOthers
  \/ ReturnResult /\ UNCHANGED xfOthers

SpecExtra == InitExtra /\ [][NextExtra]_vars

\* the readme stage of a call, entered with nothing fetched yet
ReadmeStores ==
  {<<>>, <<Entry(NameA, Str(<<"x">>))>>, <<Entry(NameA, Str(<<"'">>))>>}

InitReadme ==
  /\ responses \in ReadmeStores
  /\ blocks = <<>>
  /\ LitIdle
  /\ RandIdle
  /\ pc = "readme"
  /\ opts = Options(<<>>, FALSE)
  /\ tpl \in {Template(Undefined, Undefined, Undefined, x, Undefined, Undefined) :
                x \in {Undefined}
                      \cup {MapOf(m) : m \in MapsOf(ReadmeKeySet, ReadmeValues,
                                                    MaxKeys)}}
  /\ result = Running
  /\ fetched = <<>>
  /\ StagesIdle

rdOthers ==
  <<litVars, randVars, cfgVars, envVars, xfVars, useVars, taskVars,
    condVars, findVars>>

NextReadme ==
  \/ RdParseThrows /\ UNCHANGED rdOthers
  \/ RdKeyBlock /\ UNCHANGED rdOthers
  \/ RdKeyString /\ UNCHANGED rdOthers
  \/ RdKeyComment /\ UNCHANGED rdOthers
  \/ RdKeyText /\ UNCHANGED rdOthers
  \/ RdDone /\ UNCHANGED rdOthers

SpecReadme == InitReadme /\ [][NextReadme]_vars

\* the env stage of a call
MacroA == Macro(NameA)

EnvStores ==
  { <<>>, <<Entry(NameA, Str(<<>>))>>, <<Entry(NameA, Str(<<"x">>))>>,
    <<Entry(NameA, SeqOf(<<>>))>>,
    <<Entry(NameB, Str(<<>>)), Entry(NameA, Str(Macro(NameB)))>> }

EnvBlockStores ==
  { <<>>,
    <<Entry(<<"foo">>, Null)>>,
    <<Entry(<<"foo">>, MapOf(<<Entry(<<"k">>, Str(<<>>))>>))>>,
    <<Entry(<<"foo">>, MapOf(<<Entry(<<"k">>, Str(MacroA)),
                               Entry(<<"K">>, Str(<<"v">>))>>))>>,
    <<Entry(<<"foo">>,
            MapOf(<<Entry(<<"k">>, MapOf(<<Entry(<<"n">>, Str(<<"v">>))>>))>>))>> }

Condition(input, comparator, standard) ==
  SeqOf(<<Entry(<<"0">>, input), Entry(<<"1">>, Str(comparator)),
          Entry(<<"2">>, standard)>>)

BlockCallBodies ==
  { MapOf(<<>>),
    MapOf(<<Entry(<<"condition">>,
                  Condition(Str(MacroA), <<"==">>, Str(<<"x">>)))>>),
    MapOf(<<Entry(<<"condition">>,
                  Condition(Str(MacroA), <<"??">>, Str(<<"x">>)))>>) }

EnvEntries ==
  {Entry(<<"K">>, v) :
     v \in {Str(<<>>), Str(<<"x">>), Str(MacroA), Null,
            Str(RandomMacro(<<"2">>))}}
  \cup {Entry(<<"cm(", "c", ")">>, Str(<<"note">>))}
  \cup {Entry(k, b) : k \in {<<"gb(", "foo", ")">>,
                             <<"gb(", "https://", "u", ")">>},
                      b \in BlockCallBodies}

EnvMaps ==
  { m \in UNION {[1..k -> EnvEntries] : k \in 0..MaxKeys} :
      \A i, j \in 1..Len(m) : i # j => m[i].k # m[j].k }

InitEnv ==
  /\ responses \in EnvStores
  /\ blocks \in EnvBlockStores
  /\ LitIdle
  /\ RandIdle
  /\ pc = "env"
  /\ opts = Options(<<>>, FALSE)
  /\ tpl \in {Template(Undefined, Undefined, Undefined, Undefined, x, Undefined) :
                x \in {Undefined} \cup {MapOf(m) : m \in EnvMaps}}
  /\ result = Running
  /\ fetched = <<>>
  /\ StagesIdle

envOthers ==
  <<litVars, randVars, cfgVars, rdVars, xfVars, useVars, taskVars,
    condVars, findVars>>

NextEnv ==
  \/ EnvBegin /\ UNCHANGED envOthers
  \/ EnvKeyPlain /\ UNCHANGED envOthers
  \/ EnvConditionThrows /\ UNCHANGED envOthers
  \/ EnvBlockSkipped /\ UNCHANGED envOthers
  \/ EnvBlock /\ UNCHANGED envOthers
  \/ EnvMerged /\ UNCHANGED envOthers
  \/ EnvEmit /\ UNCHANGED envOthers
  \/ EnvDone /\ UNCHANGED envOthers

SpecEnv == InitEnv /\ [][NextEnv]_vars

\* the config stage of a call
CallKeys == {<<"gb(", "foo", ")">>, <<"gb(", "https://", "u", ")">>}

CfgBodies ==
  BlockCallBodies
  \cup { Null,
         MapOf(<<Entry(<<"args">>, MapOf(<<Entry(<<"n">>, Str(<<"v">>))>>))>>),
         MapOf(<<Entry(<<"condition">>,
                       Condition(Str(<<"x">>), <<"==">>, Str(<<"y">>)))>>) }

Provider(p) == Entry(<<"provider">>, Str(<<p>>))

PlainDocs ==
  { MapOf(<<>>),
    MapOf(<<Provider("aws")>>),
    MapOf(<<Entry(<<"distribution">>, Str(<<"x">>)), Provider("gcp")>>),
    MapOf(<<Entry(<<"cm(", "c", ")">>, Str(<<"note">>)), Provider("dev")>>),
    MapOf(<<Entry(<<"k">>, Str(MacroA))>>),
    MapOf(<<Entry(<<"k">>, Str(RandomMacro(<<"2">>)))>>),
    MapOf(<<Entry(<<"distribution">>, Str(<<>>)), Provider("azure")>>),
    MapOf(<<Entry(<<"distribution">>, Str(<<"undefined">>)), Provider("gcp")>>),
    MapOf(<<Provider("other")>>) }

TopLevelCallDocs ==
  UNION {{ MapOf(<<Entry(key, b)>>), MapOf(<<Entry(key, b), Provider("aws")>>) } :
           key \in CallKeys, b \in CfgBodies}

NestedCallDocs ==
  UNION {{ MapOf(<<Entry(<<"m">>, MapOf(<<Entry(key, b)>>))>>),
           MapOf(<<Entry(<<"m">>, MapOf(<<Entry(key, b),
                                         Entry(<<"s">>, Str(<<"t">>))>>))>>),
           MapOf(<<Entry(<<"o">>,
                         MapOf(<<Entry(<<"m">>,
                                       MapOf(<<Entry(key, b)>>))>>))>>) } :
           key \in CallKeys, b \in CfgBodies}

TwoCallDocs ==
  { MapOf(<<Entry(<<"m">>, MapOf(<<Entry(<<"gb(", "foo", ")">>, b1)>>)),
            Entry(<<"n">>, MapOf(<<Entry(<<"gb(", "https://", "u", ")">>,
                                         b2)>>))>>) :
      b1 \in CfgBodies, b2 \in CfgBodies }

ConfigDocs == PlainDocs \cup TopLevelCallDocs \cup NestedCallDocs \cup TwoCallDocs

ConfigStores ==
  {<<>>, <<Entry(NameA, Str(<<"x">>))>>, <<Entry(NameA, Str(<<"'">>))>>}

ConfigBlockStores ==
  { <<>>,
    <<Entry(<<"foo">>, Null)>>,
    <<Entry(<<"foo">>, Str(<<>>))>>,
    <<Entry(<<"foo">>, MapOf(<<Entry(<<"k">>, Str(<<"v">>))>>))>>,
    <<Entry(<<"foo">>,
            MapOf(<<Entry(<<"k">>, Str(<<"{{", "ga(", "n", ")", "}}">>))>>))>>,
    <<Entry(<<"foo">>, Str(RandomMacro(<<"2">>)))>> }

InitConfig ==
  /\ responses \in ConfigStores
  /\ blocks \in ConfigBlockStores
  /\ LitIdle
  /\ RandIdle
  /\ pc = "config"
  /\ opts = Options(<<>>, FALSE)
  /\ tpl \in {Template(Undefined, Undefined, x, Undefined, Undefined, Undefined) :
                x \in {Undefined} \cup ConfigDocs}
  /\ result = Running
  /\ fetched = <<>>
  /\ StagesIdle

cfgOthers ==
  <<litVars, randVars, rdVars, envVars, xfVars, useVars, taskVars,
    condVars, findVars>>

NextConfig ==
  \/ CfgBegin /\ UNCHANGED cfgOthers
  \/ CfgParseThrows /\ UNCHANGED cfgOthers
  \/ CfgNoBody /\ UNCHANGED cfgOthers
  \/ CfgConditionThrows /\ UNCHANGED cfgOthers
  \/ CfgRemoveCall /\ UNCHANGED cfgOthers
  \/ CfgExpand /\ UNCHANGED cfgOthers
  \/ CfgFinish /\ UNCHANGED cfgOthers

SpecConfig == InitConfig /\ [][NextConfig]_vars

\* a call of useTemplate from its entry
PromptEntry(name, default, more) ==
  MapOf(<<Entry(<<"type">>, Str(<<"Input">>)), Entry(<<"name">>, name),
          Entry(<<"message">>, Str(<<"m">>)), Entry(<<"default">>, default)>>
        \o more)

Prompt(name, default) == PromptEntry(Str(name), Str(default), <<>>)

FilePrompt(name) ==
  MapOf(<<Entry(<<"type">>, Str(<<"File">>)), Entry(<<"name">>, Str(name)),
          Entry(<<"message">>, Str(<<"m">>))>>)

ListOf(items) == SeqOf([i \in 1..Len(items) |-> Entry(NumStr(i - 1), items[i])])

Import(identifier, body) ==
  MapOf(<<Entry(<<"gb(">> \o identifier \o <<")">>, body)>>)

BlockDecl(name, content) ==
  MapOf(<<Entry(<<"name">>, Str(name)), Entry(<<"content">>, content)>>)

\* the blocks the templates declare: a list of prompts, a mapping, null
DeclaredBlocks ==
  ListOf(<< BlockDecl(<<"p">>, ListOf(<<Prompt(NameA, <<"z">>),
                                        Prompt(NameB, <<"w">>)>>)),
            BlockDecl(<<"foo">>, MapOf(<<Entry(<<"k">>, Str(<<"v">>))>>)),
            BlockDecl(<<"nil">>, Null) >>)

PromptLists ==
  { <<Prompt(NameA, <<"x">>)>>,
    <<Prompt(NameA, MacroA), Prompt(NameB, RandomMacro(<<"2">>)),
      Prompt(NameA, <<"y">>)>>,
    <<Prompt(<<>>, <<"x">>), Prompt(<<>>, <<"y">>)>>,
    <<PromptEntry(Str(NameB), Str(<<"x">>),
                  <<Entry(<<"condition">>,
                          Condition(Str(MacroA), <<"==">>, Str(<<"x">>)))>>)>>,
    <<PromptEntry(Str(NameB), Str(<<"x">>),
                  <<Entry(<<"condition">>,
                          Condition(Str(MacroA), <<"??">>, Str(<<"x">>)))>>)>>,
    <<PromptEntry(Str(NameB), Undefined,
                  <<Entry(<<"required">>, Bool(TRUE)),
                    Entry(<<"validators">>,
                          ListOf(<<MapOf(<<Entry(<<"min_length">>,
                                                 Num(2))>>)>>))>>)>>,
    <<PromptEntry(Str(NameB), Str(<<"x">>),
                  <<Entry(<<"validators">>, ListOf(<<Str(<<"nope">>)>>))>>)>>,
    <<FilePrompt(NameB)>>,
    <<Import(<<"p">>, MapOf(<<>>)), Prompt(NameB, <<"x">>)>>,
    <<Import(<<"p">>, MapOf(<<Entry(<<"condition">>,
                                    Condition(Str(MacroA), <<"==">>,
                                              Str(<<"x">>)))>>))>>,
    <<Import(<<"p">>, MapOf(<<Entry(<<"condition">>,
                                    Condition(Str(MacroA), <<"??">>,
                                              Str(<<"x">>)))>>))>>,
    <<Import(<<"https://", "u">>,
             MapOf(<<Entry(<<"condition">>,
                           Condition(Str(MacroA), <<"==">>,
                                     Str(<<"x">>)))>>))>>,
    <<MapOf(<<Entry(<<"name">>, Str(NameB))>>)>>,
    <<Import(<<"foo">>, Null)>>,
    <<Import(<<"gone">>, Null)>>,
    <<Import(<<"https://", "u">>, Null)>> }

PromptTemplates ==
  { Template(DeclaredBlocks, ListOf(ps), Undefined, Undefined, Undefined,
             Undefined) : ps \in PromptLists }

\* templates without prompts, one output section each
ConfigTemplates ==
  { Template(DeclaredBlocks, x, cfg, Undefined, Undefined, Undefined) :
      x \in {Undefined, ListOf(<<>>)},
      cfg \in { MapOf(<<Provider("aws")>>),
                MapOf(<<Entry(<<"distribution">>, Str(<<"x">>)),
                        Entry(<<"k">>, Str(MacroA))>>) }
              \cup { MapOf(<<Entry(<<"m">>,
                                   MapOf(<<Entry(<<"gb(", "foo", ")">>, b),
                                           Entry(<<"s">>, Str(MacroA))>>))>>) :
                       b \in CfgBodies }
              \cup { MapOf(<<Entry(<<"m">>,
                                   MapOf(<<Entry(<<"gb(", "foo", ")">>,
                                                 Null)>>)),
                             Entry(<<"n">>,
                                   MapOf(<<Entry(<<"gb(", "https://", "u", ")">>,
                                                 MapOf(<<>>))>>))>>) } }

ReadmeTemplates ==
  { Template(Undefined, Undefined, Undefined, MapOf(m), Undefined, Undefined) :
      m \in { <<Entry(<<"title">>, Str(MacroA)),
                Entry(<<"cm(", "c", ")">>, Str(<<"x">>))>>,
              <<Entry(<<"gs(", "https://", "u", ")">>, Str(<<"x">>)),
                Entry(<<"gb(", "foo", ")">>, Str(<<"x">>))>> } }

EnvTemplates ==
  { Template(DeclaredBlocks, Undefined, Undefined, Undefined, MapOf(m),
             Undefined) :
      m \in { <<Entry(<<"K">>, Str(MacroA)), Entry(<<"gb(", "foo", ")">>, b)>> :
                b \in BlockCallBodies } }

ExtraTemplates ==
  { Template(Undefined, Undefined, Undefined, Undefined, Undefined, MapOf(m)) :
      m \in { <<Entry(<<"./", "f">>, Str(<<"x">>)),
                Entry(<<"./", "g">>, Str(<<"https://", "u">>))>>,
              <<Entry(<<"g">>, Str(<<"x">>))>> } }

\* templates whose prompts or blocks section is no list
MisshapenTemplates ==
  { Template(MapOf(<<>>), Undefined, Undefined, Undefined, Undefined,
             Undefined),
    Template(Undefined, Str(<<"x">>), Undefined, Undefined, Undefined,
             Undefined) }

Templates ==
  PromptTemplates \cup ConfigTemplates \cup ReadmeTemplates \cup EnvTemplates
  \cup ExtraTemplates \cup MisshapenTemplates

Overrides ==
  { <<>>, <<Entry(NameA, Str(<<"x">>))>>, <<Entry(NameA, Undefined)>>,
    <<Entry(NameA, Str(<<"'">>))>>,
    <<Entry(NameB, Str(<<"y">>)), Entry(<<>>, Str(<<"e">>))>> }

OptionSet ==
  { Options(o, i) : o \in Overrides, i \in BOOLEAN }
  \cup { [Options(<<>>, FALSE) EXCEPT !.mode = "webui"] }

\* the templates and options of the later calls of a process
AgainTemplates ==
  { Template(Undefined, ListOf(<<>>),
             MapOf(<<Entry(<<"distribution">>, Str(<<"x">>))>>),
             Undefined, Undefined, Undefined),
    Template(Undefined, ListOf(<<Prompt(NameB, <<"x">>)>>), Undefined,
             Undefined, Undefined, Undefined),
    Template(Undefined, Undefined,
             MapOf(<<Entry(<<"m">>,
                           MapOf(<<Entry(<<"gb(", "foo", ")">>,
                                         MapOf(<<>>))>>))>>),
             Undefined, Undefined, Undefined) }

AgainOptions == { Options(<<>>, FALSE), Options(<<>>, TRUE) }

UseAgain == \E o \in AgainOptions, t \in AgainTemplates : UseAgainWith(o, t)

\* a new process: $cndi.responses and $cndi.blocks are new Maps
Init ==
  /\ responses = <<>>
  /\ blocks = <<>>
  /\ LitIdle
  /\ RandIdle
  /\ pc = "start"
  /\ opts \in OptionSet
  /\ tpl \in Templates
  /\ result = Running
  /\ fetched = <<>>
  /\ StagesIdle

useOthers ==
  <<litVars, randVars, cfgVars, rdVars, envVars, xfVars, taskVars, condVars,
    findVars>>

Next ==
  \/ UseWebui /\ UNCHANGED useOthers
  \/ UseOverrides /\ UNCHANGED useOthers
  \/ UseFetchFails /\ UNCHANGED useOthers
  \/ UseValidateFails /\ UNCHANGED useOthers
  \/ UseValidateThrows /\ UNCHANGED useOthers
  \/ UseLoaded /\ UNCHANGED useOthers
  \/ PromptSkip /\ UNCHANGED useOthers
  \/ PromptDefault /\ UNCHANGED useOthers
  \/ PromptPresent /\ UNCHANGED useOthers
  \/ PromptImport /\ UNCHANGED useOthers
  \/ ImportedSkip /\ UNCHANGED useOthers
  \/ ImportedDefault /\ UNCHANGED useOthers
  \/ ImportedPresent /\ UNCHANGED useOthers
  \/ ImportedDone /\ UNCHANGED useOthers
  \/ PromptsDone /\ UNCHANGED useOthers
  \/ UseAgain /\ UNCHANGED <<litVars, randVars, taskVars, condVars, findVars>>
  \/ NextConfig
  \/ NextReadme
  \/ NextEnv
  \/ NextExtra

Spec == Init /\ [][Next]_vars

\* a turn that presents a prompt literal: the guard of PromptPresent
PresentTurn ==
  /\ InPipeline
  /\ ~Answered(CurrentSpec, responses)
  /\ ~promptIsImportStatement(CurrentSpec)
  /\ opts.interactive

\* the position of the turn and the answer in hand
turnVars == <<pc, prIdx, lastAnswer>>

\* the awaited prompt returns with what the user typed: the turn is over,
\* the call is over, or the prompt is presented again
PromptReturns ==
  /\ PresentTurn
  /\ lastAnswer' \in UserAnswers
  /\ prIdx' \in {prIdx, prIdx + 1}
  /\ pc' \in {"prompts", "returned"}

\* the prompt the call awaits is answered: the user does not leave the
\* prompt unanswered for ever
SpecFair == Spec /\ WF_turnVars(PromptReturns)

\* resolveCNDIPromptCondition on bounded conditions and stores
CondStores ==
  { <<>>, <<Entry(NameA, Num(2))>>, <<Entry(NameA, Num(3))>>,
    <<Entry(NameA, Str(<<"2">>))>>, <<Entry(NameA, Str(<<"x">>))>>,
    <<Entry(NameA, Bool(TRUE))>> }

CondInputs ==
  { Str(MacroA), Str(Macro(NameB)), Str(<<"2">>), Str(<<"x">>), Num(2),
    Bool(TRUE) }

CondStandards == { Num(2), Num(3), Str(<<"x">>), Bool(TRUE) }

Conditions ==
  { Condition(i, c, st) :
      i \in CondInputs, c \in ComparatorNames \cup {<<"??">>},
      st \in CondStandards }

InitCond ==
  /\ responses \in CondStores
  /\ blocks = <<>>
  /\ LitIdle
  /\ RandIdle
  /\ CallIdle
  /\ CfgIdle
  /\ RdIdle
  /\ EnvIdle
  /\ XfIdle
  /\ UseIdle
  /\ TaskIdle
  /\ FindIdle
  /\ condPc = "ready"
  /\ condIn \in Conditions
  /\ verdict = FALSE

condOthers ==
  <<storeVars, litVars, randVars, callVars, cfgVars, rdVars, envVars, xfVars,
    useVars, taskVars, findVars>>

NextCond ==
  \/ ResolveCondition /\ UNCHANGED condOthers
  \/ ResolveConditionThrows /\ UNCHANGED condOthers

SpecCond == InitCond /\ [][NextCond]_vars

\* two calls started one after the other before either is awaited, on a
\* template of literal prompts whose config names its distribution
TaskTemplates ==
  { Template(Undefined, ListOf(ps),
             MapOf(<<Entry(<<"distribution">>, Str(<<"x">>))>>),
             Undefined, Undefined, Undefined) :
      ps \in { <<>>, <<Prompt(NameA, <<"z">>)>>,
               <<Prompt(NameA, <<"z">>), Prompt(NameB, <<"w">>)>> } }

TaskOverrides ==
  { <<>>, <<Entry(NameA, Str(<<"x">>))>>, <<Entry(NameB, Str(<<"y">>))>>,
    <<Entry(NameA, Undefined)>> }

InitTasks ==
  /\ responses = <<>>
  /\ blocks = <<>>
  /\ LitIdle
  /\ RandIdle
  /\ pc = "idle"
  /\ opts = Options(<<>>, FALSE)
  /\ tpl \in TaskTemplates
  /\ result = Running
  /\ fetched = <<>>
  /\ CfgIdle
  /\ RdIdle
  /\ EnvIdle
  /\ XfIdle
  /\ UseIdle
  /\ CondIdle
  /\ FindIdle
  /\ taskPc = [i \in Tasks |-> "start"]
  /\ taskOpts \in [Tasks -> {Options(o, FALSE) : o \in TaskOverrides}]
  /\ taskResult = [i \in Tasks |-> <<>>]

taskOthers ==
  <<litVars, randVars, callVars, cfgVars, rdVars, envVars, xfVars, useVars,
    condVars, findVars>>

NextTasks ==
  \/ \E i \in Tasks : TaskStart(i) /\ UNCHANGED taskOthers
  \/ \E i \in Tasks : TaskFinish(i) /\ UNCHANGED taskOthers

SpecTasks == InitTasks /\ [][NextTasks]_vars

----------------------------------------------------------------------------
(* findPathToKey on its own                                                *)

\* the entries of a node
MaxEntries == 2

FindKeys == {<<"a">>, <<"k">>}

FindLeaves == {Num(1), Str(<<"k">>), Null}

\* the maps of at most MaxEntries entries with keys of FindKeys
KeyedMaps(values) ==
  { MapOf(m) :
      m \in { e \in UNION {[1..n -> [k : FindKeys, v : values]] :
                             n \in 0..MaxEntries} :
                \A i, j \in 1..Len(e) : i # j => e[i].k # e[j].k } }

FindFlat == KeyedMaps(FindLeaves)

FindLists ==
  { ListOf(<<x, y>>) :
      x \in {MapOf(<<Entry(<<"k">>, Num(1))>>), Num(1)},
      y \in {MapOf(<<Entry(<<"k">>, Num(2))>>), Num(1)} }

FindTrees ==
  KeyedMaps(FindFlat \cup FindLeaves \cup FindLists)
  \cup FindLists \cup FindLeaves

FindSearchKeys == FindKeys \cup {<<"0">>, <<"z">>}

InitFind ==
  /\ responses = <<>>
  /\ blocks = <<>>
  /\ LitIdle
  /\ RandIdle
  /\ CallIdle
  /\ CfgIdle
  /\ RdIdle
  /\ EnvIdle
  /\ XfIdle
  /\ UseIdle
  /\ TaskIdle
  /\ CondIdle
  /\ findPc = "ready"
  /\ findIn \in [key : FindSearchKeys, tree : FindTrees]
  /\ findOut = <<>>

findOthers ==
  <<storeVars, litVars, randVars, callVars, cfgVars, rdVars, envVars, xfVars,
    useVars, taskVars, condVars>>

NextFind == FindCall /\ UNCHANGED findOthers

SpecFind == InitFind /\ [][NextFind]_vars

----------------------------------------------------------------------------
(* Claims                                                                  *)

BraceFree(s) == \A i \in 1..Len(s) : s[i] \notin {"{{", "}}"}

RECURSIVE NoNestedBraces(_, _)
\* no "{{" stands between a "{{" and the first "}}" after it
NoNestedBraces(s, open) ==
  IF s = <<>> THEN TRUE
  ELSE IF Head(s) = "{{" THEN ~open /\ NoNestedBraces(Tail(s), TRUE)
  ELSE IF Head(s) = "}}" THEN NoNestedBraces(Tail(s), FALSE)
  ELSE NoNestedBraces(Tail(s), open)

StoreBraceFree ==
  \A i \in 1..Len(responses) : BraceFree(ToStr(responses[i].v))

C10_LengthIsTheWrittenN ==
  randPc = "done" =>
    \A j \in 1..Len(randReq) :
      Len(randGen[j]) = IF randReq[j] = <<>> THEN DefaultRandomLength
                        ELSE DigitsValue(randReq[j], 0)

\* C7 as stated: when the extra-files processor fails on a key that does
\* not start with `./`, it has issued no network fetch before the failure.
C7_NoFetchBeforeKeyError ==
  (pc = "returned" /\ result = ErrOut(1205)) => fetched = <<>>

\* the entries of a map under other keys than k
Without(m, k) == SelectSeq(m, LAMBDA e : e.k # k)

\* C11: every failure inside a useTemplate call reaches the caller as a
\* returned error result: no call ends with a thrown exception.
C11_FailuresAreReturned == pc = "returned" => result.kind \in {"ok", "err"}

\* the call is over for a template source with a `---` separator in it
RejectedForSeparator == pc = "returned" /\ HasSeparator(source)

\* no block registered, no prompt handled, no output stage run
NothingProcessed ==
  /\ result.kind # "ok"
  /\ blocks = heldBlocks
  /\ prIdx = 0
  /\ imported = <<>>
  /\ prompted = {}
  /\ validated = {}
  /\ CfgIdle
  /\ RdIdle
  /\ EnvIdle
  /\ XfIdle

\* C12 as stated: when a template source with a `---` separator is
\* rejected, no entry has been written to the Response Store, no block has
\* been registered, no prompt has been handled and no output stage has run.
C12_RejectedBeforeAnyWrite ==
  RejectedForSeparator => (responses = held /\ NothingProcessed)

\* the store holds what the call found, with the overrides over it
OnlyOverridesWritten ==
  /\ \A k \in MapKeys(responses) :
       k \in MapKeys(held) \cup MapKeys(opts.overrides)
  /\ \A k \in MapKeys(held) \cup MapKeys(opts.overrides) :
       /\ MapHas(responses, k)
       /\ MapGet(responses, k) = IF MapHas(opts.overrides, k)
                                 THEN MapGet(opts.overrides, k)
                                 ELSE MapGet(held, k)

\* C12, amended: when a template source with a `---` separator is rejected,
\* the only entries written to the Response Store are the caller's
\* overrides, no block has been registered, no prompt has been handled and
\* no output stage has run.
C12_RejectedAfterOverridesOnly ==
  RejectedForSeparator => (OnlyOverridesWritten /\ NothingProcessed)

\* C12 witness: a source of two documents is rejected with error 1202 and
\* the override of the call is in the store.
C12_Witness ==
  /\ RejectedForSeparator
  /\ source = "multi_doc"
  /\ result = ErrOut(1202)
  /\ held = <<>>
  /\ responses = <<Entry(NameA, Str(<<"x">>))>>
  /\ tpl.blocks = DeclaredBlocks

\* the place of a stage in the order of the call: the fetch, validation and
\* block registration, the Prompt Pipeline, then the four output stages
StageRank(stage) ==
  CASE stage = "start" -> 0
    [] stage = "fetch" -> 1
    [] stage \in {"prompts", "imported"} -> 2
    [] stage \in {"config", "config_loop"} -> 3
    [] stage = "readme" -> 4
    [] stage \in {"env", "env_merge", "env_emit"} -> 5
    [] stage = "extra_files" -> 6
    [] OTHER -> 7

\* a step of a call stays in its stage, starts the next one, or ends the
\* call; the call ends with the result after the last stage or with the
\* error of the stage that failed
StagesInOrder ==
  /\ StageRank(pc') \in {StageRank(pc), StageRank(pc) + 1, 7}
  /\ pc' = "returned" =>
       \/ result'.kind = "err"
       \/ result'.kind = "ok" /\ pc = "extra_files"

\* C13: useTemplate runs its stages in the order fetch, validation, block
\* registration, Prompt Pipeline, config, readme, env, extra-files; a stage
\* starts only after the previous one succeeded, and when a stage fails no
\* later stage starts and the call returns that stage's error.
C13_StagesInOrder == [][(pc # "returned") => StagesInOrder]_vars

\* the step is neither the override injection nor one of the Prompt
\* Pipeline: it is one of the fetch and validation, of an output stage
\* processor, or the start of a later call
OutsidePipeline == StageRank(pc) \notin {0, 2}

\* no step removes a key of the Response Store
KeysKept == \A k \in MapKeys(responses) : MapHas(responses', k)

\* C14 as stated: the Response Store is written only by the override
\* injection and by the Prompt Pipeline; the steps of the four output stage
\* processors leave it as it is, and no step removes a key.
C14_StagesLeaveStore ==
  [][(OutsidePipeline => responses' = responses) /\ KeysKept]_vars

\* the one write of the output stages: the config processor, at its end,
\* records the distribution it defaulted in the rendered config
DistributionRecorded ==
  /\ pc = "config_loop"
  /\ Without(responses', DistributionKey)
       = Without(responses, DistributionKey)
  /\ MapGet(responses', DistributionKey)
       = MapGet(Parse(cfgOut').kv, <<"distribution">>)

\* C14, amended: the Response Store is written only by the override
\* injection, by the Prompt Pipeline and by the config processor, which
\* writes nothing but the key deployment_target_distribution when it
\* defaults the distribution; the readme, env and extra-files processors
\* leave the store as it is, and no step removes a key.
C14_StagesWriteDistributionOnly ==
  [][/\ OutsidePipeline => (responses' = responses \/ DistributionRecorded)
     /\ KeysKept]_vars

\* C14 witness: the config processor is over and the store holds, after the
\* override of the call, the distribution it defaulted.
C14_Witness ==
  /\ pc = "readme"
  /\ opts.overrides = <<Entry(NameA, Str(<<"x">>))>>
  /\ held = <<>>
  /\ responses = <<Entry(NameA, Str(<<"x">>)),
                   Entry(DistributionKey, Str(<<"eks">>))>>

\* the names a call can write responses under: the keys of its overrides,
\* the names of its prompts, and the key of the distribution default
OwnKeys ==
  MapKeys(opts.overrides)
  \cup { NameKey(FieldOf(PromptSpecs[i].v, "name")) : i \in 1..Len(PromptSpecs) }
  \cup { DistributionKey }

\* C15: the stores live for one useTemplate call: a later call of the
\* process finds both stores empty, and the responses it returns hold
\* nothing an earlier call wrote.
C15_StoresLiveForOneCall ==
  calls > 1 =>
    /\ held = <<>>
    /\ heldBlocks = <<>>
    /\ (pc = "returned" /\ result.kind = "ok") =>
         \A k \in MapKeys(result.responses) : k \in OwnKeys

\* the responses the call returns when no other call runs in the process
Alone(o) ==
  getResponsesAsRecord(RunPrompts(PromptSpecs, SetAll(<<>>, o.overrides)),
                       TRUE)

\* C16: with a second call started while the first is suspended on its
\* fetch, the responses each call returns are those it returns alone: they
\* depend only on its own overrides and prompts.
C16_CallsDoNotInterleave ==
  \A i \in Tasks : taskPc[i] = "returned" => taskResult[i] = Alone(taskOpts[i])

\* the condition's input is the macro reference to the response `name`
RefersTo(name) == TupleAt(condIn, 1) = Str(Macro(name))

\* C17: for every comparator of the table, resolveCNDIPromptCondition
\* returns false when the condition's input is a macro reference to a name
\* that is not in the Response Store.
C17_UnresolvedInputIsFalse ==
  \A name \in {NameA, NameB} :
    (condPc = "done" /\ RefersTo(name) /\ ~MapHas(responses, name))
      => verdict = FALSE

\* C18: when the standard is a number and the input is a macro reference to
\* a response that is the integer k, the verdict is that of the condition
\* written with the number k as its input.
C18_NumericInputIsParsed ==
  \A name \in {NameA, NameB} :
    ( /\ condPc = "done"
      /\ RefersTo(name)
      /\ TupleAt(condIn, 3).t = "num"
      /\ MapGet(responses, name).t = "num" )
      => verdict = resolveCNDIPromptCondition(
                     Condition(MapGet(responses, name), TupleAt(condIn, 2).s,
                               TupleAt(condIn, 3)),
                     responses)

\* the spec is a block import whose body has a condition that evaluates
\* false on the store
ImportGated(pSpec, store) ==
  /\ promptIsImportStatement(pSpec)
  /\ Truthy(ConditionOf(pSpec.kv[1].v))
  /\ ~ConditionThrows(ConditionOf(pSpec.kv[1].v))
  /\ ~resolveCNDIPromptCondition(ConditionOf(pSpec.kv[1].v), store)

\* the import statement is answered with no prompts whatever the
\* Named-Block Store holds and whatever a fetch would come back with
NeverResolved(pSpec) ==
  \A bs \in {<<>>, blocks}, r \in BlockFetchOutcomes :
    fetchPromptBlockForImportStatement(
      literalizeGetPromptResponseCallsWith(pSpec.kv[1].k, responses),
      pSpec.kv[1].v, bs, responses, r) = ImportOk(<<>>, <<>>)

\* the turn adds no response, presents no prompt, fetches nothing, imports
\* no prompt and does not end the call
NothingImported ==
  /\ responses' = responses
  /\ blocks' = blocks
  /\ prompted' = prompted
  /\ validated' = validated
  /\ fetched' = fetched
  /\ imported' = <<>>
  /\ result' = result
  /\ pc' = "imported"

\* C19: a turn of the Prompt Pipeline on a block import whose body
\* condition evaluates false adds no entry to the Response Store, presents
\* no prompt, imports no prompt and does not resolve the block identifier:
\* no fetch is made and the outcome does not depend on the Named-Block
\* Store.
C19_GatedImportContributesNothing ==
  [][(InPipeline /\ ~Answered(CurrentSpec, responses)
        /\ ImportGated(CurrentSpec, responses))
       => (NothingImported /\ NeverResolved(CurrentSpec))]_vars

\* C19 witness: the turn on an import of a URL block whose condition is
\* false is over, with no prompt imported and nothing fetched but the
\* template.
C19_Witness ==
  /\ pc = "imported"
  /\ imported = <<>>
  /\ prIdx = 0
  /\ PromptSpecs # <<>>
  /\ ImportGated(CurrentSpec, responses)
  /\ CurrentSpec.kv[1].k = <<"gb(", "https://", "u", ")">>
  /\ fetched = <<TemplateURL>>
  /\ responses = held

\* the spec has one key, and the key is `name`
NameOnly(pSpec) ==
  pSpec.t = "map" /\ Len(pSpec.kv) = 1 /\ pSpec.kv[1].k = <<"name">>

\* the turn is the one of a literal prompt: nothing is imported or fetched,
\* the call goes on, and without interaction the default is stored
HandledAsLiteral(pSpec) ==
  /\ pc' = "prompts"
  /\ prIdx' = prIdx + 1
  /\ result' = result
  /\ fetched' = fetched
  /\ imported' = imported
  /\ ~opts.interactive => responses' = StoreDefault(pSpec, responses)

\* C20: a prompt spec whose single key is `name`, and whose name is not in
\* the Response Store, is handled as a literal prompt and never passed to
\* the block-import resolution.
C20_NameOnlySpecIsLiteral ==
  [][(InPipeline /\ NameOnly(CurrentSpec)
        /\ ~MapHas(responses, NameKey(FieldOf(CurrentSpec, "name"))))
       => HandledAsLiteral(CurrentSpec)]_vars

\* the prompt of the turn declares validators
DeclaresValidators(prompt) ==
  /\ FieldOf(prompt, "validators").t = "seq"
  /\ FieldOf(prompt, "validators").kv # <<>>

\* an interactive turn on a literal prompt of the template's list that
\* declares validators
ValidatedTurn ==
  /\ InPipeline
  /\ opts.interactive
  /\ ~promptIsImportStatement(CurrentSpec)
  /\ DeclaresValidators(CurrentSpec)

\* the validators of the turn were run on the answer under the name and
\* every one of them passed
AnswerPassed ==
  /\ NameKey(FieldOf(CurrentSpec, "name")) \in validated'
  /\ RunValidators(FieldOf(CurrentSpec, "validators").kv,
                   MapGet(responses', NameKey(FieldOf(CurrentSpec, "name"))))
       = "pass"

\* C21: in interactive mode, for a prompt that declares validators, an
\* answer is written to the Response Store only after every declared
\* validator has been run on it and has passed: a step that writes the
\* store on such a prompt writes an answer the validators ran on and passed.
C21_StoredOnlyAfterValidation ==
  [][(ValidatedTurn /\ responses' # responses) => AnswerPassed]_vars

\* the Response Store holds, for a prompt that declares validators, an
\* answer no validator was run on
C21_StoredUnvalidated ==
  /\ pc = "prompts"
  /\ opts.interactive
  /\ prIdx = 1
  /\ DeclaresValidators(PromptSpecs[1].v)
  /\ MapHas(responses, NameKey(FieldOf(PromptSpecs[1].v, "name")))
  /\ NameKey(FieldOf(PromptSpecs[1].v, "name")) \notin validated

\* the turn at position i of the template's list presents a literal prompt
Turn(i) == PresentTurn /\ prIdx = i

\* the positions of the template's list
MaxPrompts == 3

\* C22: interactive prompting of one literal prompt is a bounded retry
\* loop: whatever the user answers, the turn on the prompt is eventually
\* over, the Prompt Pipeline moves on to the next prompt or the call fails.
C22_PromptingMovesOn == \A i \in 0..(MaxPrompts - 1) : Turn(i) ~> ~Turn(i)

\* the prompt is presented again with another answer in hand
C22_PresentedAgain == InPipeline /\ opts.interactive /\ Truthy(lastAnswer)

\* the content of a block is not a flat mapping
NonFlat(content) ==
  \/ content.t # "map"
  \/ \E i \in 1..Len(content.kv) : content.kv[i].v.t \in {"map", "seq"}

\* a turn of the env processor on a call of a declared block whose content
\* is not flat, with the condition absent or met
NonFlatTurn ==
  /\ pc = "env_merge"
  /\ envIdx < Len(envKeys)
  /\ StartsWith(envKeys[envIdx + 1], <<"gb(">>)
  /\ MapHas(blocks, CallIdentifier(envKeys[envIdx + 1], <<"gb(">>))
  /\ NonFlat(MapGet(blocks, CallIdentifier(envKeys[envIdx + 1], <<"gb(">>)))
  /\ LET condition == ConditionOf(MapGet(envSpec, envKeys[envIdx + 1]))
     IN Truthy(condition) =>
          /\ ~ConditionThrows(condition)
          /\ resolveCNDIPromptCondition(condition, responses)

\* C23: in the env processor, a $cndi.get_block call whose condition passes
\* and whose block content is not a flat mapping makes the processor return
\* a hard error, and nothing of the block gets into the entries the lines
\* are made from.
C23_NonFlatBlockIsError ==
  [][NonFlatTurn => (result'.kind = "err" /\ envSpec' = envSpec)]_vars

\* the env text holds a line made from a value that is a mapping
C23_LineFromNonFlatBlock ==
  /\ pc = "env_emit"
  /\ \E i \in 1..Len(envLines) :
       envLines[i] = <<"k", "=", "'", "[object Object]", "'">>

\* no declared block holds a call token in its content
NoBlockHoldsCall ==
  \A i \in 1..Len(blocks) :
    ~Includes(Stringify(blocks[i].v), getBlockBeginToken)

\* a turn after which the loop goes on leaves fewer call tokens in the text
\* than it found
TurnShrinks ==
  (pc = "config_loop" /\ pc' = "config_loop" /\ NoBlockHoldsCall) =>
    CountOcc(cfgOut', getBlockBeginToken) < CountOcc(cfgOut, getBlockBeginToken)

\* the config processor has returned success
ConfigSucceeded == pc = "readme"

\* the rendered config text holds no call token
RenderedWithoutCalls ==
  (ConfigSucceeded /\ NoBlockHoldsCall) =>
    ~Includes(cfgOut, getBlockBeginToken)

\* C24: when no block's content contains a $cndi.get_block( token, the
\* rescan loop of the config processor terminates for every config output
\* (every turn that does not end the processor takes at least one call
\* token out of the text), and when the processor returns success the
\* rendered text contains no call token.
C24_RescanTerminates == [][TurnShrinks]_vars /\ []RenderedWithoutCalls

\* a turn of the loop has left the text as it found it: the same call is
\* scanned again
C24_SameCallAgain ==
  /\ pc = "config_loop"
  /\ cfgIter = 2
  /\ CfgLooping
  /\ cfgOpen > -1
  /\ NoBlockHoldsCall

RECURSIVE PathsFrom(_, _, _)
\* the paths of all the entries of a tree, in depth-first order: the path of
\* an entry, then the paths of the entries of its value, then the entries
\* that follow it in its node
PathsFrom(obj, path, i) ==
  IF ~IsCollection(obj) \/ i > Len(obj.kv) THEN <<>>
  ELSE <<Append(path, obj.kv[i].k)>>
       \o PathsFrom(obj.kv[i].v, Append(path, obj.kv[i].k), 1)
       \o PathsFrom(obj, path, i + 1)

\* the paths of the entries whose key is `key`
MatchesOf(key, tree) ==
  SelectSeq(PathsFrom(tree, <<>>, 1), LAMBDA q : q[Len(q)] = key)

\* the path is the first of the matches and leads to the value of that
\* entry; it is empty when there is no match
FirstMatch(key, tree, path, matches) ==
  IF matches = <<>> THEN path = <<>>
  ELSE /\ path = matches[1]
       /\ path[Len(path)] = key
       /\ IsCollection(GetIn(tree, SubSeq(path, 1, Len(path) - 1)))
       /\ MapHas(GetIn(tree, SubSeq(path, 1, Len(path) - 1)).kv, key)
       /\ GetIn(tree, path)
            = MapGet(GetIn(tree, SubSeq(path, 1, Len(path) - 1)).kv, key)

\* C25: findPathToKey(key, tree) returns the empty path exactly when no
\* object or array node of the tree has the key among its keys; otherwise
\* it returns the path of the first match in depth-first enumeration order,
\* and following that path from the root reaches the value stored under
\* the key.
C25_FirstMatchDepthFirst ==
  findPc = "done" =>
    FirstMatch(findIn.key, findIn.tree, findOut,
               MatchesOf(findIn.key, findIn.tree))

\* the key stands at the top of the tree and, before it, inside the value
\* of an earlier entry: the path returned is the deeper one
C25_Witness ==
  /\ findPc = "done"
  /\ findIn.key = <<"k">>
  /\ IsCollection(findIn.tree)
  /\ MapHas(findIn.tree.kv, <<"k">>)
  /\ findOut = <<<<"a">>, <<"k">>>>

\* the step that ends the config processor with success
FinishStep == pc = "config_loop" /\ pc' = "readme"

DistributionField(obj) == MapGet(obj.kv, <<"distribution">>)

\* the field and the Response Store are left as they were
DistributionKept(before, after) ==
  /\ DistributionField(after) = DistributionField(before)
  /\ responses' = responses

\* the field is set from the provider table and the Response Store records
\* the same value
DistributionFromTable(before, after) ==
  /\ MapHas(distributionMap, ToStr(MapGet(before.kv, <<"provider">>))) =>
       DistributionField(after)
         = MapGet(distributionMap, ToStr(MapGet(before.kv, <<"provider">>)))
  /\ responses' = MapSet(responses, DistributionKey, DistributionField(after))

DefaultedWhenAbsent(before, after) ==
  IF \/ DistributionField(before) = Undefined
     \/ DistributionField(before) = Str(<<"undefined">>)
  THEN DistributionFromTable(before, after)
  ELSE DistributionKept(before, after)

\* C26 as stated: at the end of the config processor, when the rendered
\* config has no distribution field or has the value "undefined", the field
\* is set from the provider table and the same value is recorded in the
\* Response Store under deployment_target_distribution; when distribution
\* has another value, the field and the Response Store are left as they
\* were.
C26_DefaultedWhenAbsent ==
  [][FinishStep => DefaultedWhenAbsent(Parse(CfgRendered), Parse(cfgOut'))]_vars

\* the provider is not in the table: the field is null
NullForOtherProviders(before, after) ==
  ~MapHas(distributionMap, ToStr(MapGet(before.kv, <<"provider">>))) =>
    DistributionField(after) = Null

DefaultedWhenFalsy(before, after) ==
  IF \/ ~Truthy(DistributionField(before))
     \/ DistributionField(before) = Str(<<"undefined">>)
  THEN /\ DistributionFromTable(before, after)
       /\ NullForOtherProviders(before, after)
  ELSE DistributionKept(before, after)

\* C26 amended: the field is defaulted when it is absent, "undefined" or
\* any falsy value (null, the empty string, 0, false): it is set from the
\* provider table, to null when the provider is not in the table, and the
\* same value is recorded under deployment_target_distribution; with any
\* other value the field and the Response Store are left as they were.
C26_DefaultedWhenFalsy ==
  [][FinishStep => DefaultedWhenFalsy(Parse(CfgRendered), Parse(cfgOut'))]_vars

\* a config whose distribution was the empty string has got the default of
\* its provider, recorded in the Response Store
C26_Witness ==
  /\ pc = "readme"
  /\ tpl.outputs.cndi_config.t = "map"
  /\ MapGet(tpl.outputs.cndi_config.kv, <<"distribution">>) = Str(<<>>)
  /\ DistributionField(Parse(cfgOut)) = Str(<<"aks">>)
  /\ MapGet(responses, DistributionKey) = Str(<<"aks">>)

\* the entries that stand next to the call-site key in its parent mapping
\* are, after the turn, under the same parent with the values they had
SiblingsKeptIn(turn, parent, after) ==
  \A i \in 1..Len(parent.kv) :
    parent.kv[i].k # turn.key =>
      GetIn(after, Append(turn.parentPath, parent.kv[i].k)) = parent.kv[i].v

\* the turn expands the call and the processor goes on
ExpandedIn(turn) ==
  /\ CfgMetIn(turn)
  /\ pc' = "config_loop"
  /\ IsCollection(GetIn(turn.obj, turn.parentPath))

SiblingsKept(turn) ==
  ExpandedIn(turn) =>
    SiblingsKeptIn(turn, GetIn(turn.obj, turn.parentPath), Parse(cfgOut'))

C27_SiblingLost ==
  /\ pc = "config_loop"
  /\ cfgIter = 1
  /\ tpl.outputs.cndi_config.t = "map"
  /\ MapHas(tpl.outputs.cndi_config.kv, <<"m">>)
  /\ MapHas(MapGet(tpl.outputs.cndi_config.kv, <<"m">>).kv, <<"s">>)
  /\ Parse(cfgOut) # ParseError
  /\ GetIn(Parse(cfgOut), <<<<"m">>, <<"k">>>>) = Str(<<"v">>)
  /\ GetIn(Parse(cfgOut), <<<<"m">>, <<"s">>>>) = Undefined

\* C28: when the config processor returns success, the rendered config
\* text contains no {{$cndi.get_random_string(N)}} macro, including when the
\* macro was brought in by the content of a block expanded during the
\* get_block loop or by a block argument.
C28_NoRandomMacroLeft ==
  ConfigSucceeded => RandomMatches(removeWhitespaceBetweenBraces(cfgOut)) = <<>>

\* the config text of a template without macros holds, after success, the
\* macro of the block that was expanded
C28_MacroFromBlock ==
  /\ ConfigSucceeded
  /\ RandomMatches(
       removeWhitespaceBetweenBraces(
         Stringify(OrEmptyMap(tpl.outputs.cndi_config)))) = <<>>
  /\ RandomMatches(removeWhitespaceBetweenBraces(cfgOut)) # <<>>

\* the condition of the prompt is present and evaluates false with the store
ConditionFalse(prompt, store) ==
  /\ Truthy(FieldOf(prompt, "condition"))
  /\ ~ConditionThrows(FieldOf(prompt, "condition"))
  /\ ~resolveCNDIPromptCondition(FieldOf(prompt, "condition"), store)

\* a turn on a prompt literal of the template's list whose name is not in
\* the Response Store
LiteralTurn ==
  /\ InPipeline
  /\ ~Answered(CurrentSpec, responses)
  /\ ~promptIsImportStatement(CurrentSpec)

\* not interactive: the turn stores a value under the name of the prompt and
\* the call goes on, whatever the condition of the prompt is
StoredUnconditionally ==
  (LiteralTurn /\ ~opts.interactive) =>
    /\ MapHas(responses', NameKey(FieldOf(CurrentSpec, "name")))
    /\ result' = result
    /\ pc' = pc

\* interactive: the turn on a prompt whose condition is false leaves the
\* Response Store as it is
HiddenWritesNothing ==
  (LiteralTurn /\ opts.interactive /\ ConditionFalse(CurrentSpec, responses)) =>
    responses' = responses

\* after the Prompt Pipeline of a call that is not interactive the Response
\* Store holds a key for every name the template's prompt list declares
EveryNameHeld ==
  (pc = "config" /\ ~opts.interactive) =>
    \A i \in 1..Len(PromptSpecs) :
      (PromptSpecs[i].v.t = "map" /\ MapHas(PromptSpecs[i].v.kv, <<"name">>)) =>
        MapHas(responses, NameKey(FieldOf(PromptSpecs[i].v, "name")))

\* C29: in non-interactive mode the condition of a literal prompt is never
\* evaluated: after the Prompt Pipeline the Response Store holds a key for
\* every declared literal prompt name, including the prompts whose condition
\* evaluates false; in interactive mode a prompt whose condition is false at
\* presentation writes nothing under its name.
C29_ConditionOnlyWhenInteractive ==
  [][StoredUnconditionally /\ HiddenWritesNothing]_vars /\ []EveryNameHeld

\* the pipeline of a call that is not interactive is over and the store
\* holds the name of a prompt whose condition is false
C29_Witness ==
  /\ pc = "config"
  /\ ~opts.interactive
  /\ \E i \in 1..Len(PromptSpecs) :
       /\ ConditionFalse(PromptSpecs[i].v, responses)
       /\ MapHas(responses, NameKey(FieldOf(PromptSpecs[i].v, "name")))

\* an interactive turn has hidden a prompt whose condition is false: its
\* name is not in the store
C29_HiddenWitness ==
  /\ pc = "config"
  /\ opts.interactive
  /\ \E i \in 1..Len(PromptSpecs) :
       /\ ConditionFalse(PromptSpecs[i].v, responses)
       /\ ~MapHas(responses, NameKey(FieldOf(PromptSpecs[i].v, "name")))

\* the turn expands a call that names, by its bare name, a block that is in
\* the Named-Block Store
CallsDeclaredBlock(turn) ==
  /\ CfgMetIn(turn)
  /\ ~BlockURL(Slice(turn.key, 1, -1)).some
  /\ MapHas(blocks, Slice(turn.key, 1, -1))

DeclaredResolves(turn) ==
  CallsDeclaredBlock(turn) => result' # ErrOut(1208)

C30_DeclaredBlockMissing ==
  /\ pc = "returned"
  /\ result = ErrOut(1208)
  /\ MapHas(blocks, <<"foo">>)
  /\ ~Includes(cfgOut, <<"https://">>)

\* a call without prompts, not interactive, has returned its result
ReturnedWithoutPrompts ==
  /\ pc = "returned"
  /\ result.kind = "ok"
  /\ PromptSpecs = <<>>
  /\ ~opts.interactive

RenderedDistribution == MapGet(Parse(cfgOut).kv, <<"distribution">>)

LiteralPrompt(pSpec) ==
  /\ pSpec.t = "map"
  /\ MapHas(pSpec.kv, <<"type">>)
  /\ MapHas(pSpec.kv, <<"name">>)
  /\ MapHas(pSpec.kv, <<"message">>)

\* the step stores the declared default of the prompt under its name and
\* invokes neither the prompt primitive nor a validator
DefaultStored(prompt) ==
  /\ responses' = MapSet(responses, NameKey(FieldOf(prompt, "name")),
                         FieldOf(prompt, "default"))
  /\ prompted' = prompted
  /\ validated' = validated

\* a literal prompt whose name is not in the Response Store is reached, in
\* the template's list or in an imported list
ReachesUnanswered(prompt) ==
  /\ LiteralPrompt(prompt)
  /\ ~MapHas(responses, NameKey(FieldOf(prompt, "name")))

DefaultStoredVerbatim ==
  /\ (InPipeline /\ ReachesUnanswered(CurrentSpec))
       => DefaultStored(CurrentSpec)
  /\ (pc = "imported" /\ imported # <<>> /\ ReachesUnanswered(Head(imported)))
       => DefaultStored(Head(imported))
  /\ prompted' = {}
  /\ validated' = {}

\* C2: in non-interactive mode, the step of the Prompt Pipeline on a literal
\* prompt whose name is not in the Response Store stores the prompt's
\* declared default unchanged under its name, and no step invokes the
\* prompt primitive or a validator.
C2_DefaultStoredVerbatim == [][~opts.interactive => DefaultStoredVerbatim]_vars

\* C2 witness: a non-interactive call has stored a default that is a macro
\* call, as it is written.
C2_Witness ==
  /\ pc = "prompts"
  /\ ~opts.interactive
  /\ prIdx = 2
  /\ ~MapHas(held, NameB)
  /\ MapGet(responses, NameB) = Str(RandomMacro(<<"2">>))

\* every entry of the Response Store is left as it is, and no name of the
\* store is prompted for
EntriesKept ==
  /\ \A i \in 1..Len(responses) :
       i <= Len(responses') /\ responses'[i] = responses[i]
  /\ \A name \in MapKeys(responses) : name \in prompted' => name \in prompted

\* C3: through the Prompt Pipeline, a name that is in the Response Store
\* keeps its value and is not prompted for, whatever prompt spec, literal or
\* imported, comes with that name.
C3_FirstWriterWins ==
  [][(pc \in {"prompts", "imported"}) => EntriesKept]_vars

\* the turn ends with the call-site key out of the document, with no empty
\* map where its parent was, and without a throw
CallRemoved(turn) ==
  /\ result' # Thrown
  /\ findPathToKey(turn.key, Parse(cfgOut')) = <<>>
  /\ getValueFromKeyPath(Parse(cfgOut'), turn.parentPath) # MapOf(<<>>)

UnmetCallRemoved(turn) == CfgUnmetIn(turn) => CallRemoved(turn)

\* C4: a turn of the config loop on a $cndi.get_block call whose condition is
\* unmet ends with the call-site key out of the document and with no empty
\* map where its parent was, and it does not throw, at whatever depth the
\* call stands, the top level included.
C4_UnmetCallRemoved == [][UnmetCallRemoved(CfgTurn)]_vars

\* the block the call of the turn names is declared with content null
CallsNullBlock(turn) ==
  /\ CfgMetIn(turn)
  /\ MapHas(blocks, Slice(turn.key, 1, -1))
  /\ MapGet(blocks, Slice(turn.key, 1, -1)) = Null

NullBlockSpliced(turn) ==
  CallsNullBlock(turn) =>
    /\ result'.kind = "none"
    /\ findPathToKey(turn.key, Parse(cfgOut')) = <<>>

\* C5: a turn of the config loop on a call to a block declared with content
\* null returns no error and leaves the document without the call, a null
\* standing where the call was.
C5_NullBlockSpliced == [][NullBlockSpliced(CfgTurn)]_vars

\* the value of an env entry after all substitutions, without the quotes
\* the block merge wrapped it in
EnvFinalText(v) ==
  unwrapQuotes(literalizeGetPromptResponseCallsWith(ToStr(v), responses))

\* the number of entries of envSpec the second loop has been through
EnvEmitted ==
  IF pc \in {"env_emit", "extra_files"} \/ result.kind = "ok" THEN envIdx
  ELSE 0

\* C6: every env entry the second loop has been through whose value is the
\* empty string after all substitutions, declared directly or merged from a
\* block, has its line KEY=__KEY_PLACEHOLDER__ in the output, and no output
\* line ends at its equals sign.
C6_EmptyValueGetsPlaceholder ==
  /\ \A i \in 1..EnvEmitted :
       LET key == envSpec[i].k
       IN (/\ ~StartsWith(key, <<"cm(">>)
           /\ ~StartsWith(key, <<"gb(">>)
           /\ EnvFinalText(envSpec[i].v) = <<>>)
          => \E j \in 1..Len(envLines) :
               envLines[j] = key \o <<"=">> \o Placeholder(key)
  /\ \A j \in 1..Len(envLines) : envLines[j][Len(envLines[j])] # "="

\* C6: the env stage is over, and an entry merged from a block with an empty
\* value has produced its placeholder line
C6_Witness ==
  /\ pc = "extra_files"
  /\ \E i \in 1..Len(envSpec) :
       /\ envSpec[i].v = Str(<<"'", "'">>)
       /\ \E j \in 1..Len(envLines) :
            envLines[j] = envSpec[i].k \o <<"=">> \o Placeholder(envSpec[i].k)

\* C8: when the readme processor returns its block-import error, no
\* $cndi.get_string fetch has been issued and no readme line has been
\* produced, wherever the $cndi.get_block key stands among the keys.
C8_NoWorkBeforeBlockError ==
  (pc = "returned" /\ result = ErrOut(1204)) =>
    (fetched = <<>> /\ readmeLines = <<>>)

====
